---- MODULE Spec2Model ----
(***************************************************************************)
(* Verification model of the tarkov-data-overlay reconciliation kernel:    *)
(* value normalisation and subset comparison (src/lib/task-validator.ts),  *)
(* overlay application (examples: applyTaskOverlay) and override           *)
(* validation (validateTaskOverride).                                      *)
(*                                                                         *)
(* JSON values are records of one shape, [t, s, keys, kids]:               *)
(*   t    - the JavaScript type ("undefined", "null", "number", "string",  *)
(*          "boolean", "array", "object");                                 *)
(*   s    - String(value) of a scalar, as one token;                       *)
(*   keys - the own keys of an object, in insertion order;                 *)
(*   kids - the elements of an array, or the values of an object (kids[i]  *)
(*          is the value of keys[i]).                                      *)
(* A string is a sequence of tokens. Scalar tokens are alphanumeric words; *)
(* the punctuation of JSON.stringify is one token per character. Because   *)
(* every punctuation character collates before every digit and letter, and *)
(* no two words of the model are equal up to case, comparing two token     *)
(* sequences token by token gives the result of comparing the strings      *)
(* character by character.                                                 *)
(***************************************************************************)
EXTENDS Integers, Sequences, FiniteSets, TLC

VARIABLES op, args, retVal, retBool, retResult, retResults, retBuckets, pc, fileIndex, fileResults, hasErrors, printed, exitCode, additionResults, missingRefs, jsonContent, written, argsAfter, validators

vars == <<op, args, retVal, retBool, retResult, retResults, retBuckets, pc, fileIndex, fileResults, hasErrors, printed, exitCode, additionResults, missingRefs, jsonContent, written, argsAfter, validators>>

----------------------------------------------------------------------------
(* JSON-compatible values *)

Undef == [t |-> "undefined", s |-> "undefined", keys |-> <<>>, kids |-> <<>>]
Null == [t |-> "null", s |-> "null", keys |-> <<>>, kids |-> <<>>]
Num(n) == [t |-> "number", s |-> n, keys |-> <<>>, kids |-> <<>>]
Str(x) == [t |-> "string", s |-> x, keys |-> <<>>, kids |-> <<>>]
Bool(b) == [t |-> "boolean", s |-> b, keys |-> <<>>, kids |-> <<>>]
Arr(items) == [t |-> "array", s |-> "", keys |-> <<>>, kids |-> items]
Obj(ks, vs) == [t |-> "object", s |-> "", keys |-> ks, kids |-> vs]

IsArray(v) == v.t = "array"
IsObject(v) == v.t = "object"

\* JavaScript truthiness of a value (`!apiValue`, `value && ...`).
Truthy(v) ==
  /\ v.t \notin {"undefined", "null"}
  /\ ~(v.t = "boolean" /\ v.s = "false")
  /\ ~(v.t = "number" /\ v.s = "0")
  /\ ~(v.t = "string" /\ v.s = "")

HasKey(o, k) == \E i \in 1..Len(o.keys) : o.keys[i] = k

\* obj[key]: the value of an own key, undefined when the key is absent.
Get(o, k) ==
  IF HasKey(o, k)
    THEN o.kids[CHOOSE i \in 1..Len(o.keys) : o.keys[i] = k]
    ELSE Undef

----------------------------------------------------------------------------
(* String orders *)

\* The words of the model in the order of String.prototype.localeCompare
\* (root collation: punctuation, then digits, then letters; case is a
\* tertiary difference).
Collation ==
  <<",", ":", "\"", "[", "]", "{", "}", "$meta",
    "1", "10", "2", "20", "5", "a", "active", "b", "c", "complete", "count",
    "d1", "d2", "d3", "description", "disabled", "experience", "false",
    "finishRewards", "g1", "generated", "id", "items", "m1", "m2", "map",
    "minPlayerLevel", "mn1", "mn2", "n1", "n2", "name", "New", "null", "o1",
    "o2", "o3", "objectives", "objectivesAdd", "status", "t1", "t2", "t3",
    "task", "taskRequirements", "tasks", "true", "undefined", "Unknown",
    "v1", "version", "w1", "wikiLink", "x", "y", "z">>

\* The words of the model in UTF-16 code unit order (Array.prototype.sort
\* without a comparator).
CodeUnits ==
  <<"$meta",
    "1", "10", "2", "20", "5", "New", "Unknown", "a", "active", "b", "c",
    "complete", "count", "d1", "d2", "d3", "description", "disabled",
    "experience", "false", "finishRewards", "g1", "generated", "id", "items",
    "m1", "m2", "map", "minPlayerLevel", "mn1", "mn2", "n1", "n2", "name",
    "null", "o1", "o2", "o3", "objectives", "objectivesAdd", "status", "t1",
    "t2", "t3", "task", "taskRequirements", "tasks", "true", "undefined",
    "v1", "version", "w1", "wikiLink", "x", "y", "z">>

Rank(order, w) == CHOOSE i \in 1..Len(order) : order[i] = w

\* Lexicographic comparison of two token sequences: -1, 0 or 1.
RECURSIVE CompareTokens(_, _, _)
CompareTokens(order, a, b) ==
  IF a = <<>> /\ b = <<>> THEN 0
  ELSE IF a = <<>> THEN -1
  ELSE IF b = <<>> THEN 1
  ELSE IF Rank(order, Head(a)) < Rank(order, Head(b)) THEN -1
  ELSE IF Rank(order, Head(a)) > Rank(order, Head(b)) THEN 1
  ELSE CompareTokens(order, Tail(a), Tail(b))

\* a.localeCompare(b)
localeCompare(a, b) == CompareTokens(Collation, a, b)

----------------------------------------------------------------------------
(* JSON.stringify *)

RECURSIVE JSONstringify(_)
RECURSIVE StringifyElements(_, _)
RECURSIVE StringifyMembers(_, _, _)

\* The elements kids[i..] of an array, comma separated; undefined prints null.
StringifyElements(kids, i) ==
  IF i > Len(kids) THEN <<>>
  ELSE (IF i > 1 THEN <<",">> ELSE <<>>)
       \o (IF kids[i].t = "undefined" THEN <<"null">> ELSE JSONstringify(kids[i]))
       \o StringifyElements(kids, i + 1)

\* The members keys[i..] of an object; a member whose value is undefined is
\* left out. `first` tells whether no member has been printed yet.
StringifyMembers(o, i, first) ==
  IF i > Len(o.keys) THEN <<>>
  ELSE IF o.kids[i].t = "undefined" THEN StringifyMembers(o, i + 1, first)
  ELSE (IF first THEN <<>> ELSE <<",">>)
       \o <<"\"", o.keys[i], "\"", ":">>
       \o JSONstringify(o.kids[i])
       \o StringifyMembers(o, i + 1, FALSE)

\* JSON.stringify(v) as a token sequence; the JavaScript result undefined
\* (of JSON.stringify(undefined)) is the empty sequence, which no JSON text is.
JSONstringify(v) ==
  CASE v.t = "undefined" -> <<>>
    [] v.t = "null" -> <<"null">>
    [] v.t \in {"number", "boolean"} -> <<v.s>>
    [] v.t = "string" -> IF v.s = "" THEN <<"\"", "\"">> ELSE <<"\"", v.s, "\"">>
    [] v.t = "array" -> <<"[">> \o StringifyElements(v.kids, 1) \o <<"]">>
    [] v.t = "object" -> <<"{">> \o StringifyMembers(v, 1, TRUE) \o <<"}">>

----------------------------------------------------------------------------
(* Value Normalizer *)

sortKey(v) ==
  CASE v.t = "undefined" -> <<"undefined">>
    [] v.t = "null" -> <<"null">>
    [] v.t = "string" -> IF v.s = "" THEN <<>> ELSE <<v.s>>
    [] v.t \in {"number", "boolean"} -> <<v.s>>
    [] OTHER -> JSONstringify(v)

\* A sort that does not keep the order of equal elements.
RECURSIVE InsertByKeyUnstable(_, _)
InsertByKeyUnstable(s, x) ==
  IF s = <<>> THEN <<x>>
  ELSE IF localeCompare(sortKey(s[Len(s)]), sortKey(x)) < 0 THEN Append(s, x)
  ELSE Append(InsertByKeyUnstable(SubSeq(s, 1, Len(s) - 1), x), s[Len(s)])

\* Insert x into the sorted sequence s before the first element that the
\* comparator puts strictly after x: equal elements keep their order.
RECURSIVE InsertByKey(_, _)
InsertByKey(s, x) ==
  IF s = <<>> THEN <<x>>
  ELSE IF localeCompare(sortKey(s[Len(s)]), sortKey(x)) <= 0 THEN Append(s, x)
  ELSE Append(InsertByKey(SubSeq(s, 1, Len(s) - 1), x), s[Len(s)])

\* items.sort((a, b) => a.key.localeCompare(b.key)): Array.prototype.sort is
\* stable.
RECURSIVE SortByKey(_)
SortByKey(items) ==
  IF items = <<>> THEN <<>>
  ELSE InsertByKey(SortByKey(SubSeq(items, 1, Len(items) - 1)), items[Len(items)])

\* Object.keys(obj).sort(): code unit order.
RECURSIVE InsertKey(_, _)
InsertKey(s, k) ==
  IF s = <<>> THEN <<k>>
  ELSE IF CompareTokens(CodeUnits, <<s[Len(s)]>>, <<k>>) <= 0 THEN Append(s, k)
  ELSE Append(InsertKey(SubSeq(s, 1, Len(s) - 1), k), s[Len(s)])

RECURSIVE SortKeys(_)
SortKeys(ks) ==
  IF ks = <<>> THEN <<>>
  ELSE InsertKey(SortKeys(SubSeq(ks, 1, Len(ks) - 1)), ks[Len(ks)])

RECURSIVE normalizeValue(_)
normalizeValue(v) ==
  IF IsArray(v)
    THEN Arr(SortByKey([i \in 1..Len(v.kids) |-> normalizeValue(v.kids[i])]))
  ELSE IF IsObject(v)
    THEN LET ks == SortKeys(v.keys)
         IN  Obj(ks, [i \in 1..Len(ks) |-> normalizeValue(Get(v, ks[i]))])
  ELSE v

\* A comparison that forgets to normalise the live side.
valuesEqualRaw(a, b) ==
  \/ a.t = "undefined" /\ b.t = "undefined"
  \/ JSONstringify(normalizeValue(a)) = JSONstringify(b)

valuesEqual(a, b) ==
  \/ a.t = "undefined" /\ b.t = "undefined"
  \/ JSONstringify(normalizeValue(a)) = JSONstringify(normalizeValue(b))

----------------------------------------------------------------------------
(* Subset Comparator *)

\* A comparator that asks an exact match of objects too.
compareSubsetExact(o, a) ==
  \/ o.t = "undefined"
  \/ valuesEqual(o, a)

\* A comparator that takes an override of null for "nothing claimed".
RECURSIVE compareSubsetNullish(_, _)
compareSubsetNullish(overrideValue, apiValue) ==
  IF overrideValue.t \in {"undefined", "null"} THEN TRUE
  ELSE IF overrideValue.t # "object" THEN valuesEqual(overrideValue, apiValue)
  ELSE IF ~Truthy(apiValue) \/ apiValue.t # "object" THEN FALSE
  ELSE \A i \in 1..Len(overrideValue.keys) :
         compareSubsetNullish(overrideValue.kids[i],
                              Get(apiValue, overrideValue.keys[i]))

\* A comparison whose subset semantics reach into arrays: every element of an
\* override array is satisfied by some element of the live array.
RECURSIVE compareSubsetIntoArrays(_, _)
compareSubsetIntoArrays(overrideValue, apiValue) ==
  IF overrideValue.t = "undefined" THEN TRUE
  ELSE IF overrideValue.t = "array"
    THEN /\ apiValue.t = "array"
         /\ \A i \in 1..Len(overrideValue.kids) :
              \E j \in 1..Len(apiValue.kids) :
                compareSubsetIntoArrays(overrideValue.kids[i], apiValue.kids[j])
  ELSE IF overrideValue.t # "object" THEN valuesEqual(overrideValue, apiValue)
  ELSE IF ~Truthy(apiValue) \/ apiValue.t # "object" THEN FALSE
  ELSE \A i \in 1..Len(overrideValue.keys) :
         compareSubsetIntoArrays(overrideValue.kids[i],
                                 Get(apiValue, overrideValue.keys[i]))

RECURSIVE compareSubset(_, _)
compareSubset(overrideValue, apiValue) ==
  IF overrideValue.t = "undefined" THEN TRUE
  ELSE IF overrideValue.t # "object" THEN valuesEqual(overrideValue, apiValue)
  ELSE IF ~Truthy(apiValue) \/ apiValue.t # "object" THEN FALSE
  ELSE \A i \in 1..Len(overrideValue.keys) :
         compareSubset(overrideValue.kids[i], Get(apiValue, overrideValue.keys[i]))

----------------------------------------------------------------------------
(* Patch Applier *)

\* obj[key] = value: an existing key keeps its place, a new key comes last.
Set(o, k, v) ==
  IF HasKey(o, k)
    THEN Obj(o.keys, [i \in 1..Len(o.keys) |-> IF o.keys[i] = k THEN v ELSE o.kids[i]])
    ELSE Obj(Append(o.keys, k), Append(o.kids, v))

\* { ...a, ...b }
RECURSIVE SpreadFrom(_, _, _)
SpreadFrom(a, b, i) ==
  IF i > Len(b.keys) THEN a
  ELSE SpreadFrom(Set(a, b.keys[i], b.kids[i]), b, i + 1)

Spread(a, b) == SpreadFrom(a, b, 1)

\* a === b for the scalars of the model (identifiers, descriptions, flags).
StrictEquals(a, b) ==
  /\ a.t = b.t
  /\ a.t \notin {"array", "object"}
  /\ a.s = b.s

\* A loop that skips a minPlayerLevel that is not a number and a map that is
\* not truthy.
RECURSIVE ApplyTopLevelTyped(_, _, _)
ApplyTopLevelTyped(result, taskOverride, i) ==
  IF i > Len(taskOverride.keys) THEN result
  ELSE LET key == taskOverride.keys[i]
           value == taskOverride.kids[i]
       IN  IF key \in {"objectives", "objectivesAdd"}
             THEN ApplyTopLevelTyped(result, taskOverride, i + 1)
           ELSE IF key = "minPlayerLevel" /\ value.t # "number"
             THEN ApplyTopLevelTyped(result, taskOverride, i + 1)
           ELSE IF key = "map" /\ ~Truthy(value)
             THEN ApplyTopLevelTyped(result, taskOverride, i + 1)
           ELSE ApplyTopLevelTyped(Set(result, key, value), taskOverride, i + 1)

\* A loop that copies the patch's `objectives` like any other field.
RECURSIVE ApplyTopLevelCopiesObjectives(_, _, _)
ApplyTopLevelCopiesObjectives(result, taskOverride, i) ==
  IF i > Len(taskOverride.keys) THEN result
  ELSE LET key == taskOverride.keys[i]
           value == taskOverride.kids[i]
       IN  IF key = "objectivesAdd"
             THEN ApplyTopLevelCopiesObjectives(result, taskOverride, i + 1)
           ELSE ApplyTopLevelCopiesObjectives(Set(result, key, value), taskOverride, i + 1)

\* The loop over Object.entries(taskOverride), from entry i on.
RECURSIVE ApplyTopLevel(_, _, _)
ApplyTopLevel(result, taskOverride, i) ==
  IF i > Len(taskOverride.keys) THEN result
  ELSE LET key == taskOverride.keys[i]
           value == taskOverride.kids[i]
       IN  IF key \in {"objectives", "objectivesAdd"}
             THEN ApplyTopLevel(result, taskOverride, i + 1)
           ELSE IF key = "minPlayerLevel" /\ value.t = "number"
             THEN ApplyTopLevel(Set(result, "minPlayerLevel", value), taskOverride, i + 1)
           ELSE IF key = "map" /\ Truthy(value)
             THEN ApplyTopLevel(Set(result, "map", value), taskOverride, i + 1)
           ELSE ApplyTopLevel(Set(result, key, value), taskOverride, i + 1)

\* A merge in which the objective's own fields win over the patch's.
PatchObjectivesReversed(objectives, patches) ==
  Arr([i \in 1..Len(objectives.kids) |->
         LET objective == objectives.kids[i]
             patch == Get(patches, Get(objective, "id").s)
         IN  IF ~Truthy(patch) THEN objective ELSE Spread(patch, objective)])

\* task.objectives.map(objective => patch ? { ...objective, ...patch } : objective)
PatchObjectives(objectives, patches) ==
  Arr([i \in 1..Len(objectives.kids) |->
         LET objective == objectives.kids[i]
             patch == Get(patches, Get(objective, "id").s)
         IN  IF ~Truthy(patch) THEN objective ELSE Spread(objective, patch)])

\* An append that skips the records whose id an objective already has.
AppendObjectivesDedup(objectives, added) ==
  Arr((IF Truthy(objectives) THEN objectives.kids ELSE <<>>)
      \o SelectSeq(added.kids,
           LAMBDA r : ~Truthy(objectives) \/
                      \A i \in 1..Len(objectives.kids) :
                        ~StrictEquals(Get(objectives.kids[i], "id"), Get(r, "id"))))

\* [...(result.objectives || []), ...taskOverride.objectivesAdd]
AppendObjectives(objectives, added) ==
  Arr((IF Truthy(objectives) THEN objectives.kids ELSE <<>>) \o added.kids)

\* overlay.tasks?.[task.id]
TaskOverrideOf(task, overlay) ==
  LET tasks == Get(overlay, "tasks")
  IN  IF tasks.t \in {"undefined", "null"} THEN Undef
      ELSE Get(tasks, Get(task, "id").s)

\* The patch applied: null for a disabled task, else the corrected copy.
applyPatch(task, taskOverride) ==
  IF StrictEquals(Get(taskOverride, "disabled"), Bool("true")) THEN Null
  ELSE
    LET top == ApplyTopLevel(task, taskOverride, 1)
        patched ==
          IF Truthy(Get(taskOverride, "objectives")) /\ Truthy(Get(task, "objectives"))
            THEN Set(top, "objectives",
                     PatchObjectives(Get(task, "objectives"),
                                     Get(taskOverride, "objectives")))
            ELSE top
    IN  IF Truthy(Get(taskOverride, "objectivesAdd"))
          THEN Set(patched, "objectives",
                   AppendObjectives(Get(patched, "objectives"),
                                    Get(taskOverride, "objectivesAdd")))
          ELSE patched

\* An applier that drops a task the overlay has no entry for.
applyTaskOverlayDropsUnknown(task, overlay) ==
  LET taskOverride == TaskOverrideOf(task, overlay)
  IN  IF ~Truthy(taskOverride) THEN Null ELSE applyPatch(task, taskOverride)

applyTaskOverlay(task, overlay) ==
  LET taskOverride == TaskOverrideOf(task, overlay)
  IN  IF ~Truthy(taskOverride) THEN task ELSE applyPatch(task, taskOverride)

\* A batch that keeps a placeholder for the disabled tasks.
applyOverlayToTasksKeepNull(tasks, overlay) ==
  Arr([i \in 1..Len(tasks.kids) |-> applyTaskOverlay(tasks.kids[i], overlay)])

\* tasks.map(task => applyTaskOverlay(task, overlay)).filter(task => task !== null)
applyOverlayToTasks(tasks, overlay) ==
  Arr(SelectSeq([i \in 1..Len(tasks.kids) |-> applyTaskOverlay(tasks.kids[i], overlay)],
                LAMBDA r : r.t # "null"))

----------------------------------------------------------------------------
(* Field Reconciler *)

\* A validation detail. `field` and `message` are the pieces the template
\* strings of the code are made of.
Detail(field, status, message) ==
  [field |-> field, status |-> status, message |-> message]

formatValue(value) ==
  IF value.t \in {"undefined", "null"} THEN <<"undefined">>
  ELSE IF value.t = "string" THEN <<"'", value.s, "'">>
  ELSE IF value.t \in {"array", "object"} THEN JSONstringify(value)
  ELSE <<value.s>>

\* A field validator that asks for an exact match instead of a subset one.
FieldValidatorExact(field, override, apiTask) ==
  LET overrideValue == Get(override, field)
      apiValue == Get(apiTask, field)
      isMatch == valuesEqual(overrideValue, apiValue)
  IN  IF overrideValue.t = "undefined" THEN <<>>
      ELSE <<Detail(<<field>>, IF isMatch THEN "fixed" ELSE "needed", <<field>>)>>

\* createFieldValidator(field)(override, apiTask): no detail or one.
FieldValidator(field, override, apiTask) ==
  LET overrideValue == Get(override, field)
      apiValue == Get(apiTask, field)
      isMatch == compareSubset(overrideValue, apiValue)
  IN  IF overrideValue.t = "undefined" THEN <<>>
      ELSE <<Detail(<<field>>,
                    IF isMatch THEN "fixed" ELSE "needed",
                    IF isMatch
                      THEN <<field, ": ">> \o formatValue(apiValue) \o <<" - FIXED IN API">>
                      ELSE <<field, ": API=">> \o formatValue(apiValue)
                             \o <<", Override=">> \o formatValue(overrideValue)
                             \o <<" - STILL NEEDED">>)>>

\* status.includes('active') for a list of status words.
Includes(list, word) ==
  \E i \in 1..Len(list.kids) : StrictEquals(list.kids[i], Str(word))

\* Array.prototype.sort() without a comparator on a list of strings and
\* undefined: the strings in code unit order, undefined last.
RECURSIVE InsertId(_, _)
InsertId(s, x) ==
  IF s = <<>> THEN <<x>>
  ELSE IF CompareTokens(CodeUnits, <<s[Len(s)].s>>, <<x.s>>) <= 0 THEN Append(s, x)
  ELSE Append(InsertId(SubSeq(s, 1, Len(s) - 1), x), s[Len(s)])

RECURSIVE SortIdsDefined(_)
SortIdsDefined(ids) ==
  IF ids = <<>> THEN <<>>
  ELSE InsertId(SortIdsDefined(SubSeq(ids, 1, Len(ids) - 1)), ids[Len(ids)])

\* A list of ids left in the order of the requirements.
SortIdsUnsorted(ids) == ids

SortIds(ids) ==
  SortIdsDefined(SelectSeq(ids, LAMBDA x : x.t # "undefined"))
    \o SelectSeq(ids, LAMBDA x : x.t = "undefined")

\* reqs.map(r => r.task?.id).sort()
ReqIds(reqs) ==
  SortIds([i \in 1..Len(reqs) |->
             LET task == Get(reqs[i], "task")
             IN  IF task.t \in {"undefined", "null"} THEN Undef ELSE Get(task, "id")])

\* ids.join(', ')
RECURSIVE Join(_, _)
Join(ids, i) ==
  IF i > Len(ids) THEN <<>>
  ELSE (IF i > 1 THEN <<", ">> ELSE <<>>)
       \o (IF ids[i].t \in {"undefined", "null"} THEN <<>> ELSE <<ids[i].s>>)
       \o Join(ids, i + 1)

\* A filter that keeps every live requirement.
NotActiveKeepsAll(apiTask) ==
  LET all == Get(apiTask, "taskRequirements")
  IN  IF Truthy(all) THEN all.kids ELSE <<>>

\* The live requirements that are not marked active.
NotActive(apiTask) ==
  LET all == Get(apiTask, "taskRequirements")
  IN  SelectSeq(IF Truthy(all) THEN all.kids ELSE <<>>,
                LAMBDA r : ~Truthy(Get(r, "status")) \/ ~Includes(Get(r, "status"), "active"))

\* A validator that reports 'fixed' when neither side has a requirement.
validateTaskRequirementsEmptyIsFixed(override, apiTask) ==
  IF Get(override, "taskRequirements").t = "undefined" THEN <<>>
  ELSE
    LET apiReqs == NotActive(apiTask)
        overrideReqs == Get(override, "taskRequirements").kids
        apiReqIds == ReqIds(apiReqs)
        overrideReqIds == ReqIds(overrideReqs)
    IN  IF Len(apiReqs) = 0 /\ Len(overrideReqs) > 0
          THEN <<Detail(<<"taskRequirements">>, "needed",
                        <<"taskRequirements: API=[] (empty), Override has ">>
                          \o <<ToString(Len(overrideReqs))>> \o <<" requirement(s) - STILL NEEDED">>)>>
        ELSE IF JSONstringify(Arr(apiReqIds)) # JSONstringify(Arr(overrideReqIds))
          THEN <<Detail(<<"taskRequirements">>, "needed",
                        <<"taskRequirements: API has different requirements (">>
                          \o Join(apiReqIds, 1) \o <<") vs Override (">>
                          \o Join(overrideReqIds, 1) \o <<") - NEEDS REVIEW">>)>>
        ELSE <<Detail(<<"taskRequirements">>, "fixed",
                      <<"taskRequirements: FIXED IN API">>)>>

validateTaskRequirements(override, apiTask) ==
  IF Get(override, "taskRequirements").t = "undefined" THEN <<>>
  ELSE
    LET apiReqs == NotActive(apiTask)
        overrideReqs == Get(override, "taskRequirements").kids
        apiReqIds == ReqIds(apiReqs)
        overrideReqIds == ReqIds(overrideReqs)
    IN  IF Len(apiReqs) = 0 /\ Len(overrideReqs) > 0
          THEN <<Detail(<<"taskRequirements">>, "needed",
                        <<"taskRequirements: API=[] (empty), Override has ">>
                          \o <<ToString(Len(overrideReqs))>> \o <<" requirement(s) - STILL NEEDED">>)>>
        ELSE IF Len(apiReqs) > 0
          THEN IF JSONstringify(Arr(apiReqIds)) # JSONstringify(Arr(overrideReqIds))
                 THEN <<Detail(<<"taskRequirements">>, "needed",
                               <<"taskRequirements: API has different requirements (">>
                                 \o Join(apiReqIds, 1) \o <<") vs Override (">>
                                 \o Join(overrideReqIds, 1) \o <<") - NEEDS REVIEW">>)>>
                 ELSE <<Detail(<<"taskRequirements">>, "fixed",
                               <<"taskRequirements: FIXED IN API">>)>>
        ELSE <<>>

\* The validators run with the one of taskRequirements first.
RunFieldValidatorsRequirementsFirst(override, apiTask) ==
  validateTaskRequirements(override, apiTask)
    \o FieldValidator("minPlayerLevel", override, apiTask)
    \o FieldValidator("name", override, apiTask)
    \o FieldValidator("wikiLink", override, apiTask)
    \o FieldValidator("map", override, apiTask)
    \o FieldValidator("experience", override, apiTask)
    \o FieldValidator("finishRewards", override, apiTask)

\* FIELD_VALIDATORS, run in order; the details of those that return one.
RunFieldValidators(override, apiTask) ==
  FieldValidator("minPlayerLevel", override, apiTask)
    \o FieldValidator("name", override, apiTask)
    \o FieldValidator("wikiLink", override, apiTask)
    \o FieldValidator("map", override, apiTask)
    \o FieldValidator("experience", override, apiTask)
    \o FieldValidator("finishRewards", override, apiTask)
    \o validateTaskRequirements(override, apiTask)

\* list?.find(matches): the index of the first element that matches, 0 if
\* none does (or the list is undefined). matches[i] tells whether element i
\* does.
FindIndex(matches) ==
  IF \E i \in 1..Len(matches) : matches[i]
    THEN CHOOSE i \in 1..Len(matches) :
           matches[i] /\ \A j \in 1..(i - 1) : ~matches[j]
    ELSE 0

\* The details of the fields of one objective's patch, from field j on.
RECURSIVE ObjectiveFieldDetails(_, _, _, _)
ObjectiveFieldDetails(objId, objOverride, apiObj, j) ==
  IF j > Len(objOverride.keys) THEN <<>>
  ELSE
    LET field == objOverride.keys[j]
        overrideValue == objOverride.kids[j]
        apiValue == Get(apiObj, field)
        isMatch == compareSubset(overrideValue, apiValue)
        rest == ObjectiveFieldDetails(objId, objOverride, apiObj, j + 1)
    IN  IF overrideValue.t = "undefined" THEN rest
        ELSE <<Detail(<<"objective", objId, field>>,
                      IF isMatch THEN "fixed" ELSE "needed",
                      IF isMatch
                        THEN <<"objective ", field, ": ">> \o formatValue(apiValue)
                               \o <<" - FIXED IN API">>
                        ELSE <<"objective ", field, ": API=">> \o formatValue(apiValue)
                               \o <<", Override=">> \o formatValue(overrideValue)
                               \o <<" - STILL NEEDED">>)>> \o rest

\* Objective details with one 'check' per field of a patch whose objective is
\* not live.
RECURSIVE ObjectiveDetailsCheckPerField(_, _, _)
ObjectiveDetailsCheckPerField(objectives, apiTask, i) ==
  IF i > Len(objectives.keys) THEN <<>>
  ELSE
    LET objId == objectives.keys[i]
        live == Get(apiTask, "objectives")
        n == FindIndex([k \in 1..Len(live.kids) |->
                          StrictEquals(Get(live.kids[k], "id"), Str(objId))])
    IN  (IF n = 0
           THEN [j \in 1..Len(objectives.kids[i].keys) |->
                   Detail(<<"objective", objId>>, "check", <<"objective ", objId>>)]
           ELSE ObjectiveFieldDetails(objId, objectives.kids[i], live.kids[n], 1))
        \o ObjectiveDetailsCheckPerField(objectives, apiTask, i + 1)

\* The details of override.objectives, from entry i on.
RECURSIVE ObjectiveDetails(_, _, _)
ObjectiveDetails(objectives, apiTask, i) ==
  IF i > Len(objectives.keys) THEN <<>>
  ELSE
    LET objId == objectives.keys[i]
        live == Get(apiTask, "objectives")
        n == FindIndex([k \in 1..Len(live.kids) |->
                          StrictEquals(Get(live.kids[k], "id"), Str(objId))])
    IN  (IF n = 0
           THEN <<Detail(<<"objective", objId>>, "check",
                         <<"objective ", objId, ": Not found in API - CHECK MANUALLY">>)>>
           ELSE ObjectiveFieldDetails(objId, objectives.kids[i], live.kids[n], 1))
        \o ObjectiveDetails(objectives, apiTask, i + 1)

\* The detail of each entry of override.objectivesAdd.
AddedDetails(objectivesAdd, apiTask) ==
  [i \in 1..Len(objectivesAdd.kids) |->
     LET added == objectivesAdd.kids[i]
         live == Get(apiTask, "objectives")
         n == FindIndex([k \in 1..Len(live.kids) |->
                \/ StrictEquals(Get(live.kids[k], "id"), Get(added, "id"))
                \/ StrictEquals(Get(live.kids[k], "description"),
                                Get(added, "description"))])
         label == IF Truthy(Get(added, "id")) THEN Get(added, "id").s
                  ELSE Get(added, "description").s
     IN  IF n # 0
           THEN Detail(<<"objectivesAdd", label>>, "fixed",
                       <<"added objective '", Get(added, "description").s,
                         "': NOW IN API - MOVE TO OBJECTIVES OR REMOVE">>)
           ELSE Detail(<<"objectivesAdd", label>>, "needed",
                       <<"added objective '", Get(added, "description").s,
                         "': Still missing from API - STILL NEEDED">>)]

ValidationResult(id, name, status, stillNeeded, details) ==
  [id |-> id, name |-> name, status |-> status, stillNeeded |-> stillNeeded,
   details |-> details]

\* A derivation that does not count a 'check' detail.
NeedsOverrideNeededOnly(details) ==
  \E i \in 1..Len(details) : details[i].status = "needed"

\* details.some(d => d.status === 'needed' || d.status === 'check')
NeedsOverride(details) ==
  \E i \in 1..Len(details) : details[i].status \in {"needed", "check"}

\* A validation that runs the field checks of a disabled override as well.
validateTaskOverrideNoEarlyReturn(taskId, override, apiTasks) ==
  LET n == FindIndex([k \in 1..Len(apiTasks.kids) |->
                        StrictEquals(Get(apiTasks.kids[k], "id"), Str(taskId))])
      apiTask == apiTasks.kids[n]
      info == IF StrictEquals(Get(override, "disabled"), Bool("true"))
                THEN <<Detail(<<"disabled">>, "info", <<"Task still in API">>)>>
                ELSE <<>>
      details ==
        info \o RunFieldValidators(override, apiTask)
          \o (IF Truthy(Get(override, "objectives"))
                THEN ObjectiveDetails(Get(override, "objectives"), apiTask, 1)
                ELSE <<>>)
          \o (IF Truthy(Get(override, "objectivesAdd"))
                THEN AddedDetails(Get(override, "objectivesAdd"), apiTask)
                ELSE <<>>)
  IN  IF n = 0
        THEN ValidationResult(taskId, Str("Unknown"), "REMOVED_FROM_API", FALSE,
               <<Detail(<<"task">>, "info",
                        <<"Task not found in API - has been removed from tarkov.dev">>)>>)
      ELSE IF info # <<>>
        THEN ValidationResult(taskId, Get(apiTask, "name"), "REMOVED_FROM_API", FALSE,
                              details)
      ELSE ValidationResult(taskId, Get(apiTask, "name"),
                            IF NeedsOverride(details) THEN "NEEDED" ELSE "FIXED",
                            NeedsOverride(details), details)

\* A validation that asks for a look at each field no validator reads.
validateTaskOverrideStrict(taskId, override, apiTasks) ==
  LET n == FindIndex([k \in 1..Len(apiTasks.kids) |->
                        StrictEquals(Get(apiTasks.kids[k], "id"), Str(taskId))])
      apiTask == apiTasks.kids[n]
      unread ==
        SelectSeq(override.keys,
                  LAMBDA k : k \notin {"disabled", "minPlayerLevel", "name", "wikiLink",
                                       "map", "experience", "finishRewards",
                                       "taskRequirements", "objectives", "objectivesAdd"})
      details ==
        RunFieldValidators(override, apiTask)
          \o (IF Truthy(Get(override, "objectives"))
                THEN ObjectiveDetails(Get(override, "objectives"), apiTask, 1)
                ELSE <<>>)
          \o (IF Truthy(Get(override, "objectivesAdd"))
                THEN AddedDetails(Get(override, "objectivesAdd"), apiTask)
                ELSE <<>>)
          \o [i \in 1..Len(unread) |->
                Detail(<<unread[i]>>, "check", <<unread[i], ": not validated">>)]
  IN  IF n = 0
        THEN ValidationResult(taskId, Str("Unknown"), "REMOVED_FROM_API", FALSE,
               <<Detail(<<"task">>, "info",
                        <<"Task not found in API - has been removed from tarkov.dev">>)>>)
      ELSE IF StrictEquals(Get(override, "disabled"), Bool("true"))
        THEN ValidationResult(taskId, Get(apiTask, "name"), "REMOVED_FROM_API", FALSE,
               <<Detail(<<"disabled">>, "info",
                        <<"Task still in API but marked as disabled - should be removed from API or override can be removed">>)>>)
      ELSE ValidationResult(taskId, Get(apiTask, "name"),
                            IF NeedsOverride(details) THEN "NEEDED" ELSE "FIXED",
                            NeedsOverride(details), details)

validateTaskOverride(taskId, override, apiTasks) ==
  LET n == FindIndex([k \in 1..Len(apiTasks.kids) |->
                        StrictEquals(Get(apiTasks.kids[k], "id"), Str(taskId))])
      apiTask == apiTasks.kids[n]
      details ==
        RunFieldValidators(override, apiTask)
          \o (IF Truthy(Get(override, "objectives"))
                THEN ObjectiveDetails(Get(override, "objectives"), apiTask, 1)
                ELSE <<>>)
          \o (IF Truthy(Get(override, "objectivesAdd"))
                THEN AddedDetails(Get(override, "objectivesAdd"), apiTask)
                ELSE <<>>)
  IN  IF n = 0
        THEN ValidationResult(taskId, Str("Unknown"), "REMOVED_FROM_API", FALSE,
               <<Detail(<<"task">>, "info",
                        <<"Task not found in API - has been removed from tarkov.dev">>)>>)
      ELSE IF StrictEquals(Get(override, "disabled"), Bool("true"))
        THEN ValidationResult(taskId, Get(apiTask, "name"), "REMOVED_FROM_API", FALSE,
               <<Detail(<<"disabled">>, "info",
                        <<"Task still in API but marked as disabled - should be removed from API or override can be removed">>)>>)
      ELSE ValidationResult(taskId, Get(apiTask, "name"),
                            IF NeedsOverride(details) THEN "NEEDED" ELSE "FIXED",
                            NeedsOverride(details), details)

\* Object.entries(overrides).map(([taskId, override]) => validateTaskOverride(...))
validateAllOverrides(overrides, apiTasks) ==
  [i \in 1..Len(overrides.keys) |->
     validateTaskOverride(overrides.keys[i], overrides.kids[i], apiTasks)]

\* A categorisation whose `fixed` bucket takes every result that is not
\* still needed.
categorizeResultsFixedIsRest(results) ==
  [stillNeeded |-> SelectSeq(results, LAMBDA r : r.stillNeeded),
   fixed |-> SelectSeq(results, LAMBDA r : ~r.stillNeeded),
   removedFromApi |-> SelectSeq(results, LAMBDA r : r.status = "REMOVED_FROM_API")]

categorizeResults(results) ==
  [stillNeeded |-> SelectSeq(results, LAMBDA r : r.stillNeeded),
   fixed |-> SelectSeq(results, LAMBDA r : r.status = "FIXED"),
   removedFromApi |-> SelectSeq(results, LAMBDA r : r.status = "REMOVED_FROM_API")]

----------------------------------------------------------------------------
(* Input values of the kernel *)

MaxArrLen == 2

SeqsUpTo(S, n) == UNION {[1..k -> S] : k \in 0..n}

Scalars ==
  {Undef, Null, Num("1"), Num("2"), Str("1"), Str("a"), Str("null"), Bool("true")}

ObjectsOver(S) ==
  UNION {{Obj(ks, vs) : vs \in [1..Len(ks) -> S]} : ks \in {<<>>, <<"a">>, <<"b">>, <<"a", "b">>, <<"b", "a">>}}

ArraysOver(S) == {Arr(items) : items \in SeqsUpTo(S, MaxArrLen)}

\* Values nested inside other arrays and objects.
Inner ==
  {Num("1"), Str("1"), Undef,
   Arr(<<Num("2"), Num("1")>>), Arr(<<Num("1"), Num("2")>>),
   Arr(<<Num("1"), Str("1")>>), Arr(<<Str("1"), Num("1")>>),
   Obj(<<"a">>, <<Num("1")>>), Obj(<<"b", "a">>, <<Num("2"), Num("1")>>),
   Obj(<<"a", "b">>, <<Num("1"), Num("2")>>)}

Values ==
  Scalars \cup ArraysOver(Scalars) \cup ObjectsOver(Scalars)
          \cup ArraysOver(Inner) \cup ObjectsOver(Inner)

RECURSIVE Perms(_)
RECURSIVE PermsOfEach(_, _)

\* The sequences whose j-th element is kids[i + j - 1] with its arrays permuted.
PermsOfEach(kids, i) ==
  IF i > Len(kids) THEN {<<>>}
  ELSE {<<c>> \o rest : c \in Perms(kids[i]), rest \in PermsOfEach(kids, i + 1)}

\* The values obtained from v by permuting the elements of its arrays, at
\* any depth.
Perms(v) ==
  IF IsObject(v) THEN {Obj(v.keys, c) : c \in PermsOfEach(v.kids, 1)}
  ELSE IF IsArray(v)
    THEN {Arr([i \in 1..Len(c) |-> c[p[i]]]) :
            c \in PermsOfEach(v.kids, 1), p \in Permutations(1..Len(v.kids))}
  ELSE {v}

\* The second argument of a two-argument call on v: v with its arrays
\* permuted, or a value of another shape.
Companions(v) == Perms(v) \cup Scalars \cup Inner

\* The keys and values an object of live data may gain.
ExtKeys == {"a", "b", "c"}
ExtVals == {Num("1"), Null, Arr(<<Num("1")>>), Obj(<<"c">>, <<Num("2")>>)}

AddKey(o, k, v) == Obj(Append(o.keys, k), Append(o.kids, v))

KeysOf(v) == IF IsObject(v) THEN {v.keys[i] : i \in 1..Len(v.keys)} ELSE {}

\* The objects obtained from the object b by adding one key that a does not
\* mention, at the top level or in a nested object that a reaches through
\* object keys.
RECURSIVE Extend(_, _)
Extend(a, b) ==
  {AddKey(b, k, v) : k \in ExtKeys \ (KeysOf(a) \cup KeysOf(b)), v \in ExtVals}
    \cup UNION {
      IF IsObject(b.kids[i]) /\ IsObject(a) /\ IsObject(Get(a, b.keys[i]))
        THEN {Obj(b.keys, [b.kids EXCEPT ![i] = e]) :
                e \in Extend(Get(a, b.keys[i]), b.kids[i])}
        ELSE {} : i \in 1..Len(b.keys)}

\* One or two added keys.
Extensions(a, b) ==
  Extend(a, b) \cup UNION {Extend(a, b1) : b1 \in Extend(a, b)}

\* The live arrays that hold more than the override array v: one more
\* element, or one more key in an element that is an object.
Grown(v) ==
  IF IsArray(v)
    THEN {Arr(Append(v.kids, e)) : e \in ExtVals}
           \cup UNION {
             IF IsObject(v.kids[i])
               THEN {Arr([v.kids EXCEPT ![i] = AddKey(v.kids[i], k, e)]) :
                       k \in ExtKeys \ KeysOf(v.kids[i]), e \in ExtVals}
               ELSE {} : i \in 1..Len(v.kids)}
    ELSE {}

----------------------------------------------------------------------------
(* The operations that change an object in place, and the object they change *)

\* The inputs as a call leaves them. A write names the object it changes,
\* the number of an input or 0 for an object the call created, and the value
\* the object has afterwards.
Leaves(inputs, writes) ==
  [k \in 1..Len(inputs) |->
     LET mine == SelectSeq(writes, LAMBDA w : w.to = k)
     IN  IF mine = <<>> THEN inputs[k] ELSE mine[Len(mine)].value]

\* The writes of normalizeValue: sort() is called on the array that map()
\* returned, and the keys are assigned to the new object `normalized`.
RECURSIVE NormalizeWrites(_)
NormalizeWrites(value) ==
  IF value.t \notin {"array", "object"} THEN <<>>
  ELSE LET RECURSIVE OfKids(_)
           OfKids(i) == IF i > Len(value.kids) THEN <<>>
                        ELSE NormalizeWrites(value.kids[i]) \o OfKids(i + 1)
       IN  OfKids(1) \o <<[to |-> 0, value |-> normalizeValue(value)]>>

\* The writes of the functions of the validator: the sorts of
\* validateTaskRequirements are called on the lists map() returned, and
\* validateTaskOverride pushes onto its own `details`.
RECURSIVE ValidatorWrites(_, _)
ValidatorWrites(fn, inputs) ==
  CASE fn = "normalizeValue" -> NormalizeWrites(inputs[1])
    [] fn \in {"valuesEqual", "compareSubset"} ->
         NormalizeWrites(inputs[1]) \o NormalizeWrites(inputs[2])
    [] fn = "validateTaskOverride" ->
         LET n == FindIndex([k \in 1..Len(inputs[3].kids) |->
                               StrictEquals(Get(inputs[3].kids[k], "id"), inputs[1])])
         IN  IF n = 0 \/ StrictEquals(Get(inputs[2], "disabled"), Bool("true")) THEN <<>>
             ELSE <<[to |-> 0, value |-> Arr(ReqIds(NotActive(inputs[3].kids[n])))],
                    [to |-> 0,
                     value |-> Arr(ReqIds(Get(inputs[2], "taskRequirements").kids))],
                    [to |-> 0, value |-> Arr(<<>>)]>>
    [] fn = "validateAllOverrides" ->
         LET RECURSIVE OfEntries(_)
             OfEntries(i) ==
               IF i > Len(inputs[1].keys) THEN <<>>
               ELSE ValidatorWrites("validateTaskOverride",
                                    <<Str(inputs[1].keys[i]), inputs[1].kids[i], inputs[2]>>)
                    \o OfEntries(i + 1)
         IN  OfEntries(1)
    [] fn = "categorizeResults" -> <<>>

\* Writes of an applier whose result is the task itself, not a copy of it.
ApplierWritesAliased(task, overlay) ==
  LET taskOverride == TaskOverrideOf(task, overlay)
  IN  IF ~Truthy(taskOverride) \/ applyPatch(task, taskOverride) = Null THEN <<>>
      ELSE <<[to |-> 1, value |-> ApplyTopLevel(task, taskOverride, 1)],
             [to |-> 1, value |-> applyPatch(task, taskOverride)]>>

\* The writes of applyTaskOverlay: the loop assigns to `result`, a copy of
\* the task, and so do the two assignments of result.objectives.
ApplierWrites(task, overlay) ==
  LET taskOverride == TaskOverrideOf(task, overlay)
  IN  IF ~Truthy(taskOverride) \/ applyPatch(task, taskOverride) = Null THEN <<>>
      ELSE <<[to |-> 0, value |-> ApplyTopLevel(task, taskOverride, 1)],
             [to |-> 0, value |-> applyPatch(task, taskOverride)]>>

\* The writes of applyOverlayToTasks, from task i on: those of each call of
\* applyTaskOverlay, on the task of the list it is called with.
RECURSIVE BatchWrites(_, _, _)
BatchWrites(tasks, overlay, i) ==
  IF i > Len(tasks.kids) THEN <<>>
  ELSE [k \in 1..Len(ApplierWrites(tasks.kids[i], overlay)) |->
          LET w == ApplierWrites(tasks.kids[i], overlay)[k]
          IN  IF w.to = 0 THEN w
              ELSE [to |-> 1,
                    value |-> Arr([j \in 1..Len(tasks.kids) |->
                                     IF j = i THEN w.value ELSE tasks.kids[j]])]]
       \o BatchWrites(tasks, overlay, i + 1)

----------------------------------------------------------------------------
(* Input values of the patch applier *)

MaxObjectives == 2
MaxTasks == 2

\* An object of the fields that are present: an undefined value stands for
\* an absent key.
RECURSIVE MkObjFrom(_, _, _)
MkObjFrom(ks, vs, i) ==
  IF i > Len(ks) THEN Obj(<<>>, <<>>)
  ELSE LET rest == MkObjFrom(ks, vs, i + 1)
       IN  IF vs[i].t = "undefined" THEN rest
           ELSE Obj(<<ks[i]>> \o rest.keys, <<vs[i]>> \o rest.kids)

MkObj(ks, vs) == MkObjFrom(ks, vs, 1)

M1 == Obj(<<"id", "name">>, <<Str("m1"), Str("mn1")>>)

O1 == Obj(<<"id", "description", "count">>, <<Str("o1"), Str("d1"), Num("1")>>)
O2 == Obj(<<"id", "description", "count">>, <<Str("o2"), Str("d2"), Num("2")>>)

\* Objective records an overlay adds: a new one, and one whose id an
\* objective of the task already has.
Z == Obj(<<"id", "description">>, <<Str("z"), Str("New")>>)
O1Again == Obj(<<"id", "description", "count">>, <<Str("o1"), Str("d3"), Num("5")>>)

TaskName(id) == IF id = "t1" THEN Str("n1") ELSE Str("n2")

MkTask(id, level, map, objectives, requirements) ==
  MkObj(<<"id", "name", "minPlayerLevel", "map", "objectives", "taskRequirements">>,
        <<Str(id), TaskName(id), level, map, objectives, requirements>>)

ApplyTasks ==
  {MkTask(id, Num("10"), map, objectives, Undef) :
     id \in {"t1", "t2"}, map \in {Undef, M1}, 
     objectives \in {Arr(l) : l \in SeqsUpTo({O1, O2}, MaxObjectives)}}
    \cup {MkTask("t1", Num("10"), M1, Undef, Undef)}

ObjectivePatches ==
  {Undef,
   Obj(<<>>, <<>>),
   Obj(<<"o2">>, <<Obj(<<"count">>, <<Num("5")>>)>>),
   Obj(<<"o3", "o1">>,
       <<Obj(<<"count">>, <<Num("5")>>),
         Obj(<<"count", "description">>, <<Num("5"), Str("d3")>>)>>),
   Obj(<<"o1">>, <<Obj(<<"id">>, <<Str("o2")>>)>>)}

MkPatch(disabled, id, level, map, objectives, objectivesAdd) ==
  MkObj(<<"disabled", "id", "minPlayerLevel", "map", "objectives", "objectivesAdd">>,
        <<disabled, id, level, map, objectives, objectivesAdd>>)

ApplyPatches ==
  {MkPatch(disabled, id, level, map, objectives, objectivesAdd) :
     disabled \in {Undef, Bool("true"), Bool("false")},
     id \in {Undef, Str("t2")},
     level \in {Undef, Num("20"), Str("20")},
     map \in {Undef, Null, Obj(<<"id", "name">>, <<Str("m2"), Str("mn2")>>)},
     objectives \in ObjectivePatches,
     objectivesAdd \in {Undef, Arr(<<>>), Arr(<<Z>>), Arr(<<O1Again, Z>>)}}

MkOverlay(tasks) ==
  MkObj(<<"tasks", "$meta">>,
        <<tasks, Obj(<<"version", "generated">>, <<Str("v1"), Str("g1")>>)>>)

\* Overlays for one task: no `tasks`, an empty one, an entry for t1, an entry
\* for an id no task has, and two entries.
ApplyOverlays ==
  {MkOverlay(Undef), MkOverlay(Obj(<<>>, <<>>))}
    \cup {MkOverlay(Obj(<<"t1">>, <<p>>)) : p \in ApplyPatches}
    \cup {MkOverlay(Obj(<<"t3">>, <<MkPatch(Undef, Undef, Num("20"), Undef, Undef, Arr(<<Z>>))>>)),
          MkOverlay(Obj(<<"t2", "t1">>,
                        <<MkPatch(Bool("true"), Undef, Undef, Undef, Undef, Undef),
                          MkPatch(Undef, Undef, Num("20"), Undef, Undef, Undef)>>))}

BatchTasks ==
  {MkTask("t1", Num("10"), M1, Arr(<<O1, O2>>), Undef),
   MkTask("t1", Num("20"), Undef, Arr(<<>>), Undef),
   MkTask("t2", Num("10"), Undef, Arr(<<O1>>), Undef)}

BatchPatches ==
  {Undef,
   MkPatch(Bool("true"), Undef, Num("20"), Undef, Undef, Undef),
   MkPatch(Bool("false"), Undef, Num("20"), Undef, Undef, Undef),
   MkPatch(Undef, Str("t2"), Undef, Undef, Undef, Undef),
   MkPatch(Undef, Str("t3"), Undef, Undef, Undef, Undef),
   MkPatch(Undef, Undef, Undef, Obj(<<"id", "name">>, <<Str("m2"), Str("mn2")>>),
           Obj(<<"o1">>, <<Obj(<<"count">>, <<Num("5")>>)>>), Arr(<<Z>>))}

BatchOverlays ==
  {MkOverlay(Undef)}
    \cup {MkOverlay(MkObj(<<"t1", "t2", "t3">>, <<p, q, r>>)) :
            p \in BatchPatches, q \in BatchPatches,
            r \in {Undef, MkPatch(Undef, Undef, Num("20"), Undef, Undef, Undef)}}

----------------------------------------------------------------------------
(* Input values of the field reconciler *)

MaxPatchFields == 2

\* Requirements an override declares.
OX == Obj(<<"task">>, <<Obj(<<"id">>, <<Str("x")>>)>>)
OY == Obj(<<"task">>, <<Obj(<<"id">>, <<Str("y")>>)>>)

LiveRequirements ==
  LET RX == Obj(<<"task", "status">>, <<Obj(<<"id">>, <<Str("x")>>), Arr(<<Str("complete")>>)>>)
      RXActive == Obj(<<"task", "status">>,
                      <<Obj(<<"id">>, <<Str("x")>>), Arr(<<Str("complete"), Str("active")>>)>>)
      RY == Obj(<<"task", "status">>, <<Obj(<<"id">>, <<Str("y")>>), Arr(<<Str("complete")>>)>>)
      RYNoStatus == Obj(<<"task">>, <<Obj(<<"id">>, <<Str("y")>>)>>)
  IN  {Undef, Arr(<<>>), Arr(<<RXActive>>), Arr(<<RX>>), Arr(<<RYNoStatus, RX>>),
       Arr(<<RXActive, RY>>), Arr(<<RX, RX>>)}

I1 == Obj(<<"count">>, <<Num("1")>>)
I2 == Obj(<<"count">>, <<Num("2")>>)

\* A live task t1 (TaskData).
MkLiveTask(level, map, requirements, objectives) ==
  MkObj(<<"id", "name", "minPlayerLevel", "wikiLink", "map", "experience",
          "finishRewards", "taskRequirements", "objectives">>,
        <<Str("t1"), Str("n1"), level, Str("w1"), map, Num("5"),
          Obj(<<"items", "count">>, <<Arr(<<I1, I2>>), Num("1")>>), requirements, objectives>>)

LiveTasks ==
  {MkLiveTask(lm[1], lm[2], requirements, objectives) :
     lm \in {<<Num("10"), M1>>, <<Num("20"), M1>>, <<Num("10"), Null>>,
             <<Num("10"), Undef>>},
     requirements \in LiveRequirements,
     objectives \in {Undef, Arr(<<>>), Arr(<<O1, O2>>), Arr(<<O2, Z>>)}}
    \cup {MkLiveTask(Num("10"), M1, Arr(<<>>),
                     Arr(<<Obj(<<"id", "count">>, <<Str("o4"), Num("1")>>)>>))}

\* The live task lists: empty, or t2 followed by a t1.
ApiTaskLists ==
  {Arr(<<>>)}
    \cup {Arr(<<MkTask("t2", Num("10"), Undef, Arr(<<O1>>), Arr(<<>>)), t>>) : t \in LiveTasks}

MkOverride(disabled, level, name, wikiLink, map, experience, finishRewards, taskRequirements, objectives, objectivesAdd) ==
  MkObj(<<"disabled", "minPlayerLevel", "name", "wikiLink", "map", "experience",
          "finishRewards", "taskRequirements", "objectives", "objectivesAdd">>,
        <<disabled, level, name, wikiLink, map, experience, finishRewards,
          taskRequirements, objectives, objectivesAdd>>)

\* The overrides that declare at most MaxPatchFields fields.
SmallOverrides ==
  {o \in {MkOverride(disabled, level, name, wikiLink, map, experience, finishRewards,
                     taskRequirements, objectives, objectivesAdd) :
            disabled \in {Undef, Bool("true"), Bool("false")},
            level \in {Undef, Num("10"), Null},
            name \in {Undef, Str("n1"), Str("n2")},
            wikiLink \in {Undef, Str("w1")},
            map \in {Undef, Null, Obj(<<"id">>, <<Str("m1")>>)},
            experience \in {Undef, Num("10")},
            finishRewards \in {Undef, Obj(<<"items">>, <<Arr(<<I2, I1>>)>>),
                               Obj(<<"items">>, <<Arr(<<I1>>)>>)},
            taskRequirements \in {Undef, Arr(<<>>), Arr(<<OX>>), Arr(<<OX, OY>>),
                                  Arr(<<OX, OX>>), Arr(<<OY>>)},
            objectives \in {Undef,
                            Obj(<<"o1">>, <<Obj(<<"count">>, <<Num("1")>>)>>),
                            Obj(<<"o1">>, <<Obj(<<"count", "description">>,
                                                <<Num("1"), Str("d3")>>)>>),
                            Obj(<<"o2">>, <<Obj(<<"count", "description">>,
                                                <<Undef, Str("d2")>>)>>),
                            Obj(<<"o3", "o2">>,
                                <<Obj(<<"count">>, <<Num("5")>>),
                                  Obj(<<"count", "description">>,
                                      <<Num("5"), Str("d2")>>)>>)},
            objectivesAdd \in {Undef, Arr(<<Z>>), Arr(<<O1Again, Z>>)}} :
     Len(o.keys) <= MaxPatchFields}

\* Overrides that declare many fields at once, one that adds an objective
\* with an id only and one with a description only, one whose requirement
\* is marked active, and three that declare kappaRequired, a field that no
\* validator reads.
FullOverrides ==
  {MkOverride(Bool("false"), Num("10"), Str("n2"), Str("w1"), Null, Num("10"),
              Obj(<<"items">>, <<Arr(<<I2, I1>>)>>), Arr(<<OX, OY>>),
              Obj(<<"o3", "o2">>,
                  <<Obj(<<"count">>, <<Num("5")>>),
                    Obj(<<"count", "description">>, <<Num("5"), Str("d2")>>)>>),
              Arr(<<O1Again, Z>>)),
   MkOverride(Bool("true"), Num("10"), Undef, Undef, Undef, Undef, Undef,
              Arr(<<OX>>), Obj(<<"o3">>, <<Obj(<<"count">>, <<Num("5")>>)>>),
              Arr(<<Z>>)),
   MkOverride(Undef, Undef, Undef, Undef, Undef, Undef, Undef, Undef, Undef,
              Arr(<<Obj(<<"id">>, <<Str("z")>>), Obj(<<"description">>, <<Str("d1")>>)>>)),
   Obj(<<"taskRequirements">>,
       <<Arr(<<Obj(<<"task", "status">>,
                   <<Obj(<<"id">>, <<Str("x")>>), Arr(<<Str("active")>>)>>)>>)>>),
   Obj(<<"kappaRequired">>, <<Bool("true")>>),
   Obj(<<"kappaRequired", "disabled">>, <<Bool("true"), Bool("false")>>),
   Obj(<<"kappaRequired", "minPlayerLevel">>, <<Bool("true"), Num("10")>>)}

Overrides == SmallOverrides \cup FullOverrides

MaxOverrides == 3

\* Overrides of a report: a level, a disabled task, a patch of an objective
\* that is not live, a name, and one that declares every field.
ReportOverrides ==
  {MkOverride(Bool("false"), Num("10"), Str("n2"), Str("w1"), Null, Num("10"),
              Obj(<<"items">>, <<Arr(<<I2, I1>>)>>), Arr(<<OX, OY>>),
              Obj(<<"o3", "o2">>,
                  <<Obj(<<"count">>, <<Num("5")>>),
                    Obj(<<"description", "count">>, <<Str("d2"), Num("5")>>)>>),
              Arr(<<O1Again, Z>>)),
   MkOverride(Undef, Num("10"), Undef, Undef, Undef, Undef, Undef, Undef, Undef, Undef),
   MkOverride(Bool("true"), Num("10"), Undef, Undef, Undef, Undef, Undef, Undef, Undef, Undef),
   MkOverride(Undef, Undef, Undef, Undef, Undef, Undef, Undef, Undef,
              Obj(<<"o3">>, <<Obj(<<"count">>, <<Num("5")>>)>>), Undef),
   MkOverride(Undef, Undef, Str("n2"), Undef, Undef, Undef, Undef, Undef, Undef, Undef)}

\* The sequences of distinct task ids, at most MaxOverrides long.
ReportIdOrders ==
  {ids \in SeqsUpTo({"t1", "t2", "t3", "t4"}, MaxOverrides) :
     \A i, j \in 1..Len(ids) : i # j => ids[i] # ids[j]}

ReportApiTaskLists ==
  {Arr(<<>>),
   Arr(<<MkTask("t2", Num("10"), Undef, Arr(<<O1>>), Arr(<<>>)),
         MkLiveTask(Num("10"), M1, Arr(<<>>), Arr(<<O1, O2>>))>>),
   Arr(<<MkLiveTask(Num("20"), M1, Arr(<<>>), Arr(<<O1, O2>>))>>)}

----------------------------------------------------------------------------
(* The kernel as a state machine: one call per step *)

\* No buckets yet.
NoBuckets == [stillNeeded |-> <<>>, fixed |-> <<>>, removedFromApi |-> <<>>]

\* No validation result yet.
NoResult == ValidationResult("", Undef, "", FALSE, <<>>)

Init ==
  /\ op = "idle"
  /\ args = <<>>
  /\ retVal = Undef
  /\ retBool = FALSE
  /\ retResult = NoResult
  /\ validators = {}
  /\ argsAfter = <<>>
  /\ jsonContent = <<>>
  /\ written = <<>>
  /\ additionResults = <<>>
  /\ missingRefs = <<>>
  /\ pc = "none"
  /\ fileIndex = 0
  /\ fileResults = <<>>
  /\ hasErrors = FALSE
  /\ printed = <<>>
  /\ exitCode = "none"
  /\ retResults = <<>>
  /\ retBuckets = NoBuckets

NormalizeValue ==
  /\ op = "idle"
  /\ \E x \in Values :
       /\ args' = <<x>>
       /\ retVal' = normalizeValue(x)
       /\ argsAfter' = Leaves(<<x>>, ValidatorWrites("normalizeValue", <<x>>))
  /\ op' = "normalizeValue"
  /\ UNCHANGED <<retBool, retResult, retResults, retBuckets, pc, fileIndex, fileResults, hasErrors, printed, exitCode, additionResults, missingRefs, jsonContent, written, validators>>

ValuesEqual ==
  /\ op = "idle"
  /\ \E a \in Values :
       \E b \in IF a \in Scalars THEN Values ELSE Companions(a) :
         /\ args' = <<a, b>>
         /\ retBool' = valuesEqual(a, b)
         /\ argsAfter' = Leaves(<<a, b>>, ValidatorWrites("valuesEqual", <<a, b>>))
  /\ op' = "valuesEqual"
  /\ UNCHANGED <<retVal, retResult, retResults, retBuckets, pc, fileIndex, fileResults, hasErrors, printed, exitCode, additionResults, missingRefs, jsonContent, written, validators>>

CompareSubset ==
  /\ op = "idle"
  /\ \E a \in Values :
       \E b \in IF a \in Scalars THEN Values ELSE Companions(a) \cup Grown(a) :
         /\ args' = <<a, b>>
         /\ retBool' = compareSubset(a, b)
         /\ argsAfter' = Leaves(<<a, b>>, ValidatorWrites("compareSubset", <<a, b>>))
  /\ op' = "compareSubset"
  /\ UNCHANGED <<retVal, retResult, retResults, retBuckets, pc, fileIndex, fileResults, hasErrors, printed, exitCode, additionResults, missingRefs, jsonContent, written, validators>>

ApplyTaskOverlay ==
  /\ op = "idle"
  /\ \E task \in ApplyTasks, overlay \in ApplyOverlays :
       /\ args' = <<task, overlay>>
       /\ retVal' = applyTaskOverlay(task, overlay)
       /\ argsAfter' = Leaves(<<task, overlay>>, ApplierWrites(task, overlay))
  /\ op' = "applyTaskOverlay"
  /\ UNCHANGED <<retBool, retResult, retResults, retBuckets, pc, fileIndex, fileResults, hasErrors, printed, exitCode, additionResults, missingRefs, jsonContent, written, validators>>

ApplyOverlayToTasks ==
  /\ op = "idle"
  /\ \E tasks \in {Arr(l) : l \in SeqsUpTo(BatchTasks, MaxTasks)}, overlay \in BatchOverlays :
       /\ args' = <<tasks, overlay>>
       /\ retVal' = applyOverlayToTasks(tasks, overlay)
       /\ argsAfter' = Leaves(<<tasks, overlay>>, BatchWrites(tasks, overlay, 1))
  /\ op' = "applyOverlayToTasks"
  /\ UNCHANGED <<retBool, retResult, retResults, retBuckets, pc, fileIndex, fileResults, hasErrors, printed, exitCode, additionResults, missingRefs, jsonContent, written, validators>>

ValidateTaskOverride ==
  /\ op = "idle"
  /\ \E taskId \in {"t1", "t3"}, override \in Overrides, apiTasks \in ApiTaskLists :
       /\ args' = <<Str(taskId), override, apiTasks>>
       /\ retResult' = validateTaskOverride(taskId, override, apiTasks)
       /\ argsAfter' = Leaves(<<Str(taskId), override, apiTasks>>,
                            ValidatorWrites("validateTaskOverride",
                                            <<Str(taskId), override, apiTasks>>))
  /\ op' = "validateTaskOverride"
  /\ UNCHANGED <<retVal, retBool, retResults, retBuckets, pc, fileIndex, fileResults, hasErrors, printed, exitCode, additionResults, missingRefs, jsonContent, written, validators>>

ValidateAllOverrides ==
  /\ op = "idle"
  /\ \E overrides \in (UNION {{Obj(ids, os) : os \in [1..Len(ids) -> ReportOverrides]} : ids \in ReportIdOrders}), apiTasks \in ReportApiTaskLists :
       /\ args' = <<overrides, apiTasks>>
       /\ retResults' = validateAllOverrides(overrides, apiTasks)
       /\ argsAfter' = Leaves(<<overrides, apiTasks>>,
                            ValidatorWrites("validateAllOverrides", <<overrides, apiTasks>>))
  /\ op' = "validateAllOverrides"
  /\ UNCHANGED <<retVal, retBool, retResult, retBuckets, pc, fileIndex, fileResults, hasErrors, printed, exitCode, additionResults, missingRefs, jsonContent, written, validators>>

\* printResults: the results of validateAllOverrides are categorised.
CategorizeResults ==
  /\ op = "validateAllOverrides"
  /\ retBuckets' = categorizeResults(retResults)
  /\ argsAfter' = Leaves(<<retResults>>, ValidatorWrites("categorizeResults", <<retResults>>))
  /\ op' = "categorizeResults"
  /\ UNCHANGED <<args, retVal, retBool, retResult, retResults, pc, fileIndex, fileResults, hasErrors, printed, exitCode, additionResults, missingRefs, jsonContent, written, validators>>

\* The call returns; the next call starts from scratch.
Return ==
  /\ op # "idle"
  /\ op' = "idle"
  /\ args' = <<>>
  /\ retVal' = Undef
  /\ retBool' = FALSE
  /\ retResult' = NoResult
  /\ validators' = {}
  /\ argsAfter' = <<>>
  /\ jsonContent' = <<>>
  /\ written' = <<>>
  /\ additionResults' = <<>>
  /\ missingRefs' = <<>>
  /\ pc' = "none"
  /\ fileIndex' = 0
  /\ fileResults' = <<>>
  /\ hasErrors' = FALSE
  /\ printed' = <<>>
  /\ exitCode' = "none"
  /\ retResults' = <<>>
  /\ retBuckets' = NoBuckets

NextKernel == NormalizeValue \/ ValuesEqual \/ CompareSubset \/ Return

SpecKernel == Init /\ [][NextKernel]_vars

NextApply == ApplyTaskOverlay \/ ApplyOverlayToTasks \/ Return

SpecApply == Init /\ [][NextApply]_vars

NextValidate == CompareSubset \/ ValidateTaskOverride \/ Return

SpecValidate == Init /\ [][NextValidate]_vars

----------------------------------------------------------------------------
(* The validate command: scripts/validate.ts *)

MaxFiles == 3

\* initializeValidators: the cache has a compiled validator for the pattern
\* of every configuration. A validator is known by its pattern.
initializeValidators(configs) == {configs[i] : i \in 1..Len(configs)}

\* getValidator: the validator whose pattern is the file name, or null.
getValidator(filename, cache) ==
  IF filename \in cache THEN filename ELSE "null"

\* A validateFile that asks the schema before it looks for an empty object.
validateFileSchemaFirst(n, file, cache) ==
  IF file.content = "unreadable"
    THEN [file |-> n, valid |-> FALSE, errors |-> <<"message">>]
  ELSE IF getValidator(file.name, cache) = "null"
    THEN [file |-> n, valid |-> TRUE, errors |-> <<>>]
  ELSE IF file.content = "conforming"
    THEN [file |-> n, valid |-> TRUE, errors |-> <<>>]
  ELSE [file |-> n, valid |-> FALSE, errors |-> <<"/path: message", "/other: message">>]

\* validateFile: the result for file number n. A file has a base name and a
\* content: it cannot be read or parsed, it is the empty object, or it is
\* data that conforms to the schema of its name or violates it. No errors
\* (undefined) is the empty list.
validateFile(n, file, cache) ==
  IF file.content = "unreadable"
    THEN [file |-> n, valid |-> FALSE, errors |-> <<"message">>]
  ELSE IF file.content = "empty"
    THEN [file |-> n, valid |-> TRUE, errors |-> <<>>]
  ELSE IF getValidator(file.name, cache) = "null"
    THEN [file |-> n, valid |-> TRUE, errors |-> <<>>]
  ELSE IF file.content = "conforming"
    THEN [file |-> n, valid |-> TRUE, errors |-> <<>>]
  ELSE [file |-> n, valid |-> FALSE, errors |-> <<"/path: message", "/other: message">>]

\* One line of console output, about a file (0: about none).
Line(text, file, error) == [text |-> text, file |-> file, error |-> error]

\* main starts.
ValidateMain ==
  /\ op = "idle"
  /\ op' = "validate"
  /\ pc' = "validateSourceFiles"
  /\ \E files \in SeqsUpTo([name : {"tasks.json5", "unknown.json5"},
                            content : {"unreadable", "empty", "conforming", "violating"}],
                           MaxFiles) :
       args' = files
  /\ printed' = <<Line("Validating source files...", 0, "")>>
  /\ UNCHANGED <<retVal, retBool, retResult, retResults, retBuckets, fileIndex, fileResults,
                 hasErrors, exitCode, additionResults, missingRefs, jsonContent, written, argsAfter, validators>>

\* validateSourceFiles returns the result of every file, in order.
ValidateSourceFiles ==
  /\ op = "validate" /\ pc = "validateSourceFiles"
  /\ \E configs \in {<<"tasks.json5">>, <<"editions.json5", "tasks.json5">>} :
       /\ validators' = initializeValidators(configs)
       /\ fileResults' = [n \in 1..Len(args) |->
                            validateFile(n, args[n], initializeValidators(configs))]
  /\ hasErrors' = FALSE
  /\ fileIndex' = 1
  /\ pc' = "printResults"
  /\ UNCHANGED <<op, args, retVal, retBool, retResult, retResults, retBuckets, printed,
                 exitCode, additionResults, missingRefs, jsonContent, written, argsAfter>>

\* initializeValidators throws (a schema file cannot be loaded): nothing
\* catches it.
ValidateSourceFilesThrows ==
  /\ op = "validate" /\ pc = "validateSourceFiles"
  /\ pc' = "uncaught"
  /\ UNCHANGED <<op, args, retVal, retBool, retResult, retResults, retBuckets, fileIndex,
                 fileResults, hasErrors, printed, exitCode, additionResults, missingRefs, jsonContent, written, argsAfter, validators>>

\* A loop that stops at the first invalid file.
PrintResultStopsAtInvalid ==
  /\ op = "validate" /\ pc = "printResults" /\ fileIndex <= Len(fileResults)
  /\ LET result == fileResults[fileIndex]
     IN  IF result.valid
           THEN /\ printed' = Append(printed, Line("[ok]", result.file, ""))
                /\ fileIndex' = fileIndex + 1
                /\ UNCHANGED hasErrors
           ELSE /\ printed' = Append(printed, Line("[failed]", result.file, ""))
                /\ fileIndex' = Len(fileResults) + 1
                /\ hasErrors' = TRUE
  /\ UNCHANGED <<op, args, retVal, retBool, retResult, retResults, retBuckets, pc,
                 fileResults, exitCode, additionResults, missingRefs, jsonContent, written, argsAfter, validators>>

\* printResults, one iteration of its loop: the file's line, and for an
\* invalid file its errors.
PrintResult ==
  /\ op = "validate" /\ pc = "printResults" /\ fileIndex <= Len(fileResults)
  /\ LET result == fileResults[fileIndex]
     IN  IF result.valid
           THEN /\ printed' = Append(printed, Line("[ok]", result.file, ""))
                /\ UNCHANGED hasErrors
           ELSE /\ printed' = Append(printed, Line("[failed]", result.file, ""))
                                \o [k \in 1..Len(result.errors) |->
                                      Line("   ", result.file, result.errors[k])]
                /\ hasErrors' = TRUE
  /\ fileIndex' = fileIndex + 1
  /\ UNCHANGED <<op, args, retVal, retBool, retResult, retResults, retBuckets, pc,
                 fileResults, exitCode, additionResults, missingRefs, jsonContent, written, argsAfter, validators>>

\* printResults returns hasErrors to main.
PrintResultsReturn ==
  /\ op = "validate" /\ pc = "printResults" /\ fileIndex > Len(fileResults)
  /\ retBool' = hasErrors
  /\ printed' = Append(printed, Line("", 0, ""))
  /\ pc' = "decide"
  /\ UNCHANGED <<op, args, retVal, retResult, retResults, retBuckets, fileIndex, fileResults,
                 hasErrors, exitCode, additionResults, missingRefs, jsonContent, written, argsAfter, validators>>

\* main: if (hasErrors) process.exit(1)
ValidateMainFails ==
  /\ op = "validate" /\ pc = "decide" /\ retBool
  /\ printed' = Append(printed, Line("Validation failed!", 0, ""))
  /\ exitCode' = "1"
  /\ pc' = "exited"
  /\ UNCHANGED <<op, args, retVal, retBool, retResult, retResults, retBuckets, fileIndex,
                 fileResults, hasErrors, additionResults, missingRefs, jsonContent, written, argsAfter, validators>>

\* main: else, it returns.
ValidateMainCompletes ==
  /\ op = "validate" /\ pc = "decide" /\ ~retBool
  /\ printed' = Append(printed, Line("All files valid!", 0, ""))
  /\ pc' = "done"
  /\ UNCHANGED <<op, args, retVal, retBool, retResult, retResults, retBuckets, fileIndex,
                 fileResults, hasErrors, exitCode, additionResults, missingRefs, jsonContent, written, argsAfter, validators>>

NextValidateCommand ==
  \/ ValidateMain \/ ValidateSourceFiles \/ ValidateSourceFilesThrows
  \/ PrintResult \/ PrintResultsReturn \/ ValidateMainFails \/ ValidateMainCompletes

SpecValidateCommand == Init /\ [][NextValidateCommand]_vars

----------------------------------------------------------------------------
(* The check-overrides command: additions and editions against live data *)

\* Names and wiki links are sequences of pieces: words, " ", "\t" and "/".
\* The empty sequence is the empty string or undefined (both falsy).
IsSpace(piece) == piece \in {" ", "\t"}

\* String.prototype.toLowerCase on the words of the model.
toLowerCase(str) ==
  [k \in 1..Len(str) |->
     CASE str[k] = "N1" -> "n1"
       [] str[k] = "W1" -> "w1"
       [] str[k] = "New" -> "new"
       [] OTHER -> str[k]]

\* String.prototype.trim
RECURSIVE trim(_)
trim(str) ==
  IF str = <<>> THEN <<>>
  ELSE IF IsSpace(Head(str)) THEN trim(Tail(str))
  ELSE IF IsSpace(str[Len(str)]) THEN trim(SubSeq(str, 1, Len(str) - 1))
  ELSE str

\* str.replace(/\s+/g, ' ')
RECURSIVE CollapseSpaces(_)
CollapseSpaces(str) ==
  IF str = <<>> THEN <<>>
  ELSE IF IsSpace(Head(str))
    THEN IF Len(str) > 1 /\ IsSpace(str[2]) THEN CollapseSpaces(Tail(str))
         ELSE <<" ">> \o CollapseSpaces(Tail(str))
  ELSE <<Head(str)>> \o CollapseSpaces(Tail(str))

\* link.trim().toLowerCase().replace(/\/$/, ''), undefined for no link.
normalizeWikiLink(link) ==
  IF link = <<>> THEN <<>>
  ELSE LET l == toLowerCase(trim(link))
       IN  IF l # <<>> /\ l[Len(l)] = "/" THEN SubSeq(l, 1, Len(l) - 1) ELSE l

normalizeName(name) == CollapseSpaces(toLowerCase(trim(name)))

\* The string of a live task's field as pieces.
Pieces(v) == IF v.t = "string" /\ v.s # "" THEN <<v.s>> ELSE <<>>

\* byWikiLink.get(wikiKey): the last live task with that key, 0 if none.
ByWikiLink(apiTasks, wikiKey) ==
  LET hits == {k \in 1..Len(apiTasks.kids) :
                 /\ normalizeWikiLink(Pieces(Get(apiTasks.kids[k], "wikiLink"))) # <<>>
                 /\ normalizeWikiLink(Pieces(Get(apiTasks.kids[k], "wikiLink"))) = wikiKey}
  IN  IF hits = {} THEN 0 ELSE CHOOSE k \in hits : \A h \in hits : h <= k

\* byName.get(nameKey) ?? []: the live tasks with that name key, in order.
ByName(apiTasks, nameKey) ==
  SelectSeq(apiTasks.kids,
            LAMBDA task : normalizeName(Pieces(Get(task, "name"))) = nameKey)

AdditionResult(key, name, status, message) ==
  [key |-> key, name |-> name, status |-> status, message |-> message]

\* A check that treats a name several live tasks share as no match.
checkTaskAdditionsSingleOnly(additions, apiTasks) ==
  [n \in 1..Len(additions) |->
     LET addition == additions[n]
         wikiKey == normalizeWikiLink(addition.wikiLink)
         wikiMatch == IF wikiKey # <<>> THEN ByWikiLink(apiTasks, wikiKey) ELSE 0
         nameMatches == ByName(apiTasks, normalizeName(addition.name))
     IN  IF wikiMatch # 0
           THEN AdditionResult(addition.key, addition.name, "RESOLVED", <<"by wikiLink">>)
         ELSE IF Len(nameMatches) = 1
           THEN AdditionResult(addition.key, addition.name, "CHECK", <<"by name only">>)
         ELSE AdditionResult(addition.key, addition.name, "MISSING",
                <<"Still missing from API - STILL NEEDED">>)]

\* checkTaskAdditions: additions is the sequence of the map's entries.
checkTaskAdditions(additions, apiTasks) ==
  [n \in 1..Len(additions) |->
     LET addition == additions[n]
         wikiKey == normalizeWikiLink(addition.wikiLink)
         wikiMatch == IF wikiKey # <<>> THEN ByWikiLink(apiTasks, wikiKey) ELSE 0
         nameMatches == ByName(apiTasks, normalizeName(addition.name))
     IN  IF wikiMatch # 0
           THEN AdditionResult(addition.key, addition.name, "RESOLVED",
                  <<"Matched API task '", Get(apiTasks.kids[wikiMatch], "name").s, "' (",
                    Get(apiTasks.kids[wikiMatch], "id").s, ") by wikiLink - RESOLVED">>)
         ELSE IF Len(nameMatches) = 1
           THEN AdditionResult(addition.key, addition.name, "CHECK",
                  <<"Matched API task '", Get(nameMatches[1], "name").s, "' (",
                    Get(nameMatches[1], "id").s, ") by name only - NEEDS REVIEW">>)
         ELSE IF Len(nameMatches) > 1
           THEN AdditionResult(addition.key, addition.name, "CHECK",
                  <<"Multiple API tasks share this name (">>
                    \o Join([k \in 1..Len(nameMatches) |-> Get(nameMatches[k], "id")], 1)
                    \o <<") - NEEDS REVIEW">>)
         ELSE AdditionResult(addition.key, addition.name, "MISSING",
                <<"Still missing from API - STILL NEEDED">>)]

\* The references of one list of an edition to task ids that are not live.
MissingOf(edition, taskIds, kind, apiTasks) ==
  LET missing == SelectSeq(taskIds,
                   LAMBDA id : \A k \in 1..Len(apiTasks.kids) :
                                 ~StrictEquals(Get(apiTasks.kids[k], "id"), Str(id)))
  IN  [k \in 1..Len(missing) |->
         [editionId |-> edition.id, editionTitle |-> edition.title,
          taskId |-> missing[k], kind |-> kind]]

\* checkEditionTaskReferences: editions is the sequence of the map's values.
RECURSIVE checkEditionTaskReferences(_, _)
checkEditionTaskReferences(editions, apiTasks) ==
  IF editions = <<>> THEN <<>>
  ELSE MissingOf(Head(editions), Head(editions).exclusiveTaskIds, "exclusive", apiTasks)
       \o MissingOf(Head(editions), Head(editions).excludedTaskIds, "excluded", apiTasks)
       \o checkEditionTaskReferences(Tail(editions), apiTasks)

----------------------------------------------------------------------------
(* The check-overrides command: main *)

\* The task overrides of tasks.json5.
CheckOverrideMaps ==
  {Obj(<<>>, <<>>),
   Obj(<<"t1">>,
       <<MkOverride(Undef, Num("10"), Undef, Undef, Undef, Undef, Undef, Undef, Undef, Undef)>>),
   Obj(<<"t1", "t3">>,
       <<MkOverride(Undef, Undef, Str("n2"), Undef, Undef, Undef, Undef, Undef, Undef, Undef),
         MkOverride(Undef, Num("10"), Undef, Undef, Undef, Undef, Undef, Undef, Undef, Undef)>>)}

TaskAddition(key, name, wikiLink) == [key |-> key, name |-> name, wikiLink |-> wikiLink]

\* The entries of tasksAdd.json5: a task whose wiki link a live task has, one
\* that shares only its name with a live task, one that is not live, and
\* one that has the wiki link and the name of a live task.
TaskAdditionLists ==
  {<<>>,
   <<TaskAddition("a4", <<"N1">>, <<"w1">>), TaskAddition("a5", <<"n1", " ">>, <<"w2">>)>>,
   <<TaskAddition("a1", <<"New">>, <<" ", "W1", "/">>)>>,
   <<TaskAddition("a2", <<" ", "N1", "\t">>, <<>>), TaskAddition("a3", <<"New">>, <<"/">>)>>}

\* The values of editions.json5.
EditionLists ==
  {<<>>,
   <<[id |-> "e1", title |-> "v1", exclusiveTaskIds |-> <<"t1", "t3">>,
      excludedTaskIds |-> <<"t2">>]>>}

\* The lines of printResults: one per result, then the size of each bucket.
ResultLines(results) ==
  <<Line("OVERLAY VALIDATION REPORT", 0, "")>>
    \o [n \in 1..Len(results) |-> Line("result", n, results[n].status)]
    \o <<Line("Still need overrides", Len(categorizeResults(results).stillNeeded), ""),
         Line("Fixed in API, can remove", Len(categorizeResults(results).fixed), ""),
         Line("Removed from API, delete from overlay",
              Len(categorizeResults(results).removedFromApi), "")>>

\* The lines of printAdditionResults.
AdditionLines(results) ==
  <<Line("ADDITIONS CHECK", 0, "")>>
    \o [n \in 1..Len(results) |-> Line("addition", n, results[n].status)]
    \o <<Line("Resolved in API",
              Len(SelectSeq(results, LAMBDA r : r.status = "RESOLVED")), ""),
         Line("Still missing from API",
              Len(SelectSeq(results, LAMBDA r : r.status = "MISSING")), ""),
         Line("Needs review",
              Len(SelectSeq(results, LAMBDA r : r.status = "CHECK")), "")>>

\* The lines of printEditionReferenceResults.
EditionLines(missing) ==
  <<Line("EDITION EXCLUSIONS CHECK", 0, "")>>
    \o (IF missing = <<>>
          THEN <<Line("All edition task references exist in API", 0, "")>>
          ELSE <<Line("Missing edition task references", Len(missing), "")>>
                 \o [n \in 1..Len(missing) |-> Line("reference", n, missing[n].taskId)])

\* main starts.
CheckMain ==
  /\ op = "idle"
  /\ op' = "check"
  /\ pc' = "loadTaskOverrides"
  /\ printed' = <<Line("Loading task overrides...", 0, "")>>
  /\ UNCHANGED <<args, retVal, retBool, retResult, retResults, retBuckets, fileIndex,
                 fileResults, hasErrors, exitCode, additionResults, missingRefs, jsonContent, written, argsAfter, validators>>

LoadTaskOverrides ==
  /\ op = "check" /\ pc = "loadTaskOverrides"
  /\ \E overrides \in CheckOverrideMaps :
       /\ args' = <<overrides>>
       /\ printed' = printed \o <<Line("Found task override(s)", Len(overrides.keys), ""),
                                  Line("Loading task additions and editions...", 0, "")>>
  /\ pc' = "loadAdditions"
  /\ UNCHANGED <<op, retVal, retBool, retResult, retResults, retBuckets, fileIndex,
                 fileResults, hasErrors, exitCode, additionResults, missingRefs, jsonContent, written, argsAfter, validators>>

\* loadTaskAdditions and loadEditions
LoadAdditionsAndEditions ==
  /\ op = "check" /\ pc = "loadAdditions"
  /\ \E additions \in TaskAdditionLists, editions \in EditionLists :
       /\ args' = args \o <<additions, editions>>
       /\ printed' = printed \o <<Line("Found task addition(s)", Len(additions), ""),
                                  Line("Found edition(s)", Len(editions), ""),
                                  Line("Fetching current data from tarkov.dev API...", 0, "")>>
  /\ pc' = "fetchTasks"
  /\ UNCHANGED <<op, retVal, retBool, retResult, retResults, retBuckets, fileIndex,
                 fileResults, hasErrors, exitCode, additionResults, missingRefs, jsonContent, written, argsAfter, validators>>

\* await fetchTasks() resolves.
FetchTasks ==
  /\ op = "check" /\ pc = "fetchTasks"
  /\ \E apiTasks \in ReportApiTaskLists
                     \cup {Arr(<<MkLiveTask(Num("10"), M1, Arr(<<>>), Arr(<<O1, O2>>)),
                                 Obj(<<"id", "name">>, <<Str("t4"), Str("N1")>>)>>)} :
       /\ args' = Append(args, apiTasks)
       /\ printed' = printed \o <<Line("Fetched tasks from API", Len(apiTasks.kids), ""),
                                  Line("Validating overrides...", 0, "")>>
  /\ pc' = "validateAllOverrides"
  /\ UNCHANGED <<op, retVal, retBool, retResult, retResults, retBuckets, fileIndex,
                 fileResults, hasErrors, exitCode, additionResults, missingRefs, jsonContent, written, argsAfter, validators>>

\* A file cannot be loaded or parsed, or the fetch is rejected: control
\* passes to the catch clause.
LoadOrFetchThrows ==
  /\ op = "check" /\ pc \in {"loadTaskOverrides", "loadAdditions", "fetchTasks"}
  /\ pc' = "catch"
  /\ UNCHANGED <<op, args, retVal, retBool, retResult, retResults, retBuckets,
                 fileIndex, fileResults, hasErrors, printed, exitCode,
                 additionResults, missingRefs, jsonContent, written, argsAfter, validators>>

\* validateAllOverrides and printResults
ValidateAndPrint ==
  /\ op = "check" /\ pc = "validateAllOverrides"
  /\ retResults' = validateAllOverrides(args[1], args[4])
  /\ retBuckets' = categorizeResults(retResults')
  /\ printed' = printed \o ResultLines(retResults')
                  \o <<Line("Checking additions against API...", 0, "")>>
  /\ pc' = "checkTaskAdditions"
  /\ UNCHANGED <<op, args, retVal, retBool, retResult, fileIndex, fileResults,
                 hasErrors, exitCode, additionResults, missingRefs, jsonContent, written, argsAfter, validators>>

\* checkTaskAdditions and printAdditionResults
CheckTaskAdditions ==
  /\ op = "check" /\ pc = "checkTaskAdditions"
  /\ additionResults' = checkTaskAdditions(args[2], args[4])
  /\ printed' = printed \o AdditionLines(additionResults')
                  \o <<Line("Checking edition exclusions against API...", 0, "")>>
  /\ pc' = "checkEditionTaskReferences"
  /\ UNCHANGED <<op, args, retVal, retBool, retResult, retResults, retBuckets,
                 fileIndex, fileResults, hasErrors, exitCode, missingRefs, jsonContent, written, argsAfter, validators>>

\* checkEditionTaskReferences and printEditionReferenceResults
CheckEditionTaskReferences ==
  /\ op = "check" /\ pc = "checkEditionTaskReferences"
  /\ missingRefs' = checkEditionTaskReferences(args[3], args[4])
  /\ printed' = printed \o EditionLines(missingRefs')
  /\ pc' = "exit"
  /\ UNCHANGED <<op, args, retVal, retBool, retResult, retResults, retBuckets,
                 fileIndex, fileResults, hasErrors, exitCode, additionResults, jsonContent, written, argsAfter, validators>>

\* An exit that reports overrides still needed as a failure.
CheckMainExitsOnNeeded ==
  /\ op = "check" /\ pc = "exit"
  /\ exitCode' = IF retBuckets.stillNeeded # <<>> THEN "1" ELSE "0"
  /\ pc' = "exited"
  /\ UNCHANGED <<op, args, retVal, retBool, retResult, retResults, retBuckets,
                 fileIndex, fileResults, hasErrors, printed, additionResults,
                 missingRefs, jsonContent, written, argsAfter, validators>>

\* process.exit(0)
CheckMainExits ==
  /\ op = "check" /\ pc = "exit"
  /\ exitCode' = "0"
  /\ pc' = "exited"
  /\ UNCHANGED <<op, args, retVal, retBool, retResult, retResults, retBuckets,
                 fileIndex, fileResults, hasErrors, printed, additionResults,
                 missingRefs, jsonContent, written, argsAfter, validators>>

\* catch (error): printError and process.exit(1)
CheckMainCatches ==
  /\ op = "check" /\ pc = "catch"
  /\ printed' = Append(printed, Line("Error during validation:", 0, "message"))
  /\ exitCode' = "1"
  /\ pc' = "exited"
  /\ UNCHANGED <<op, args, retVal, retBool, retResult, retResults, retBuckets,
                 fileIndex, fileResults, hasErrors, additionResults, missingRefs, jsonContent, written, argsAfter, validators>>

NextCheckCommand ==
  \/ CheckMain \/ LoadTaskOverrides \/ LoadAdditionsAndEditions \/ FetchTasks
  \/ LoadOrFetchThrows \/ ValidateAndPrint \/ CheckTaskAdditions
  \/ CheckEditionTaskReferences \/ CheckMainExits \/ CheckMainCatches

SpecCheckCommand == Init /\ [][NextCheckCommand]_vars

----------------------------------------------------------------------------
(* The build command: scripts/build.ts *)

\* The text of a string between its quotes: a quote in it is escaped.
Escape(str) == IF str = "say \"hi\"" THEN "say \\\"hi\\\"" ELSE str

Unescape(text) == IF text = "say \\\"hi\\\"" THEN "say \"hi\"" ELSE text

\* The text of a number: NaN and the infinities print as null, -0 as 0.
NumberText(str) ==
  IF str \in {"NaN", "Infinity", "-Infinity"} THEN "null"
  ELSE IF str = "-0" THEN "0"
  ELSE str

\* The indentation of a line at the nesting level.
Indent(level) == [k \in 1..level |-> "  "]

RECURSIVE StringifyIndented(_, _)
RECURSIVE IndentedElements(_, _, _)
RECURSIVE IndentedMembers(_, _, _, _)

IndentedElements(kids, n, level) ==
  IF n > Len(kids) THEN <<>>
  ELSE (IF n > 1 THEN <<",">> ELSE <<>>)
       \o <<"\n">> \o Indent(level)
       \o (IF kids[n].t = "undefined" THEN <<"null">>
           ELSE StringifyIndented(kids[n], level))
       \o IndentedElements(kids, n + 1, level)

IndentedMembers(o, n, first, level) ==
  IF n > Len(o.keys) THEN <<>>
  ELSE IF o.kids[n].t = "undefined" THEN IndentedMembers(o, n + 1, first, level)
  ELSE (IF first THEN <<>> ELSE <<",">>)
       \o <<"\n">> \o Indent(level)
       \o <<"\"", Escape(o.keys[n]), "\"", ":", " ">>
       \o StringifyIndented(o.kids[n], level)
       \o IndentedMembers(o, n + 1, FALSE, level)

\* JSON.stringify(v, null, 2), v printed at the nesting level.
StringifyIndented(v, level) ==
  CASE v.t = "undefined" -> <<>>
    [] v.t = "null" -> <<"null">>
    [] v.t = "boolean" -> <<v.s>>
    [] v.t = "number" -> <<NumberText(v.s)>>
    [] v.t = "string" -> IF v.s = "" THEN <<"\"", "\"">> ELSE <<"\"", Escape(v.s), "\"">>
    [] v.t = "array" ->
         IF v.kids = <<>> THEN <<"[", "]">>
         ELSE <<"[">> \o IndentedElements(v.kids, 1, level + 1)
                \o <<"\n">> \o Indent(level) \o <<"]">>
    [] v.t = "object" ->
         IF \A n \in 1..Len(v.kids) : v.kids[n].t = "undefined" THEN <<"{", "}">>
         ELSE <<"{">> \o IndentedMembers(v, 1, TRUE, level + 1)
                \o <<"\n">> \o Indent(level) \o <<"}">>

\* A text without its leading white space.
RECURSIVE SkipSpace(_)
SkipSpace(text) ==
  IF text # <<>> /\ Head(text) \in {"\n", "  ", " "} THEN SkipSpace(Tail(text)) ELSE text

RECURSIVE ParseValue(_)
RECURSIVE ParseElements(_, _)
RECURSIVE ParseMembers(_, _, _)

\* The elements of an array up to its closing bracket.
ParseElements(text, kids) ==
  LET t == SkipSpace(text)
  IN  IF Head(t) = "]" THEN [v |-> Arr(kids), rest |-> Tail(t)]
      ELSE IF Head(t) = "," THEN ParseElements(Tail(t), kids)
      ELSE LET e == ParseValue(t) IN ParseElements(e.rest, Append(kids, e.v))

\* The members of an object up to its closing brace.
ParseMembers(text, ks, vs) ==
  LET t == SkipSpace(text)
  IN  IF Head(t) = "}" THEN [v |-> Obj(ks, vs), rest |-> Tail(t)]
      ELSE IF Head(t) = "," THEN ParseMembers(Tail(t), ks, vs)
      ELSE LET key == Unescape(t[2])
               e == ParseValue(SubSeq(t, 5, Len(t)))
           IN  ParseMembers(e.rest, Append(ks, key), Append(vs, e.v))

\* The value at the head of a JSON text, and the text after it.
ParseValue(text) ==
  LET t == SkipSpace(text)
  IN  CASE Head(t) = "null" -> [v |-> Null, rest |-> Tail(t)]
        [] Head(t) \in {"true", "false"} -> [v |-> Bool(Head(t)), rest |-> Tail(t)]
        [] Head(t) = "\"" ->
             IF t[2] = "\"" THEN [v |-> Str(""), rest |-> SubSeq(t, 3, Len(t))]
             ELSE [v |-> Str(Unescape(t[2])), rest |-> SubSeq(t, 4, Len(t))]
        [] Head(t) = "[" -> ParseElements(Tail(t), <<>>)
        [] Head(t) = "{" -> ParseMembers(Tail(t), <<>>, <<>>)
        [] OTHER -> [v |-> Num(Head(t)), rest |-> Tail(t)]

JSONparse(text) == ParseValue(text).v

\* delete obj[key]
Delete(o, key) ==
  LET keep == SelectSeq([n \in 1..Len(o.keys) |-> n], LAMBDA n : o.keys[n] # key)
  IN  Obj([n \in 1..Len(keep) |-> o.keys[keep[n]]], [n \in 1..Len(keep) |-> o.kids[keep[n]]])

\* createHash('sha256').update(content).digest('hex'): one string per
\* content (collisions are not modelled).
generateSha256(content) == ToString(content)

\* loadSourceFiles: the overrides, then the additions, then the modes if any.
loadSourceFiles(overrides, additions, modes) ==
  LET output == Spread(Spread(Obj(<<>>, <<>>), overrides), additions)
  IN  IF Truthy(modes) THEN Set(output, "modes", modes) ELSE output

\* { ...data, $meta: { version, generated } }
OutputOf(data, version, generated) ==
  Set(data, "$meta", MkObj(<<"version", "generated">>, <<version, generated>>))

\* A serialization without indentation as the content that is hashed.
HashedContentCompact(output) == JSONstringify(output)

\* jsonContent: the serialization of the output before it has a sha256.
HashedContent(output) == StringifyIndented(output, 0)

\* output.$meta.sha256 = generateSha256(jsonContent)
Stamped(output) ==
  Set(output, "$meta",
      Set(Get(output, "$meta"), "sha256", Str(generateSha256(HashedContent(output)))))

\* The objects of the overrides directory, by file.
BuildOverrides ==
  {Obj(<<>>, <<>>),
   Obj(<<"tasks">>, <<Obj(<<"t1">>, <<Obj(<<"minPlayerLevel">>, <<Num("10")>>)>>)>>),
   Obj(<<"tasks", "items">>,
       <<Obj(<<"t2", "t1">>,
             <<Obj(<<"disabled">>, <<Bool("true")>>),
               Obj(<<"name", "experience", "objectivesAdd", "map">>,
                   <<Str("say \"hi\""), Num("NaN"), Arr(<<Z, O1>>), Null>>)>>),
         Obj(<<>>, <<>>)>>),
   Obj(<<"$meta", "tasks">>,
       <<Obj(<<"sha256">>, <<Str("x")>>),
         Obj(<<"t1">>, <<Obj(<<"count", "items">>, <<Num("-0"), Arr(<<>>)>>)>>)>>)}

\* The objects of the additions directory, by file.
BuildAdditions ==
  {Obj(<<>>, <<>>),
   Obj(<<"editions">>, <<Obj(<<"e1">>, <<Obj(<<"id", "title">>, <<Str("e1"), Str("")>>)>>)>>),
   Obj(<<"tasks", "tasksAdd">>,
       <<Obj(<<"t3">>, <<Obj(<<"name">>, <<Str("null")>>)>>),
         Obj(<<"a1">>, <<Obj(<<"name", "taskRequirements">>,
                             <<Str("New"), Arr(<<OX, Arr(<<Num("1"), Num("2")>>)>>)>>)>>)>>)}

\* What loadModeFiles returns.
BuildModes ==
  {Undef,
   Obj(<<"pve">>, <<Obj(<<"tasks">>, <<Obj(<<"t1">>, <<Obj(<<"minPlayerLevel">>, <<Num("20")>>)>>)>>)>>),
   Obj(<<"regular", "pve">>,
       <<Obj(<<"tasks">>, <<Obj(<<>>, <<>>)>>), Obj(<<"tasksAdd">>, <<Obj(<<>>, <<>>)>>)>>)}

\* build(): the sources are loaded, the output is stamped and written.
Build ==
  /\ op = "idle"
  /\ \E overrides \in BuildOverrides, additions \in BuildAdditions, modes \in BuildModes,
        version \in {Str("v1"), Str("1")}, generated \in {Str("g1"), Str("generated")} :
       LET data == loadSourceFiles(overrides, additions, modes)
           output == OutputOf(data, version, generated)
       IN  /\ args' = <<data, version, generated>>
           /\ jsonContent' = HashedContent(output)
           /\ retVal' = Stamped(output)
           /\ written' = StringifyIndented(Stamped(output), 0)
  /\ op' = "build"
  /\ pc' = "written"
  /\ UNCHANGED <<retBool, retResult, retResults, retBuckets, fileIndex, fileResults,
                 hasErrors, printed, exitCode, additionResults, missingRefs, argsAfter, validators>>

\* A source file cannot be parsed: build() throws before anything is written.
BuildThrows ==
  /\ op = "idle"
  /\ op' = "build"
  /\ pc' = "uncaught"
  /\ UNCHANGED <<args, retVal, retBool, retResult, retResults, retBuckets, fileIndex,
                 fileResults, hasErrors, printed, exitCode, additionResults,
                 missingRefs, jsonContent, written, argsAfter, validators>>

NextBuild == Build \/ BuildThrows

SpecBuild == Init /\ [][NextBuild]_vars

NextReport == ValidateAllOverrides \/ CategorizeResults \/ Return

SpecReport == Init /\ [][NextReport]_vars

\* The calls of the applier, of the kernel and of the report.
SpecCalls == Init /\ [][NextApply \/ NextKernel \/ NextReport]_vars

Next ==
  \/ NextKernel \/ NextApply \/ NextValidate \/ NextReport
  \/ NextValidateCommand \/ NextCheckCommand \/ NextBuild

Spec == Init /\ [][Next]_vars

----------------------------------------------------------------------------
(* Claims about the kernel *)

\* C1: if y is x with the elements of its arrays permuted (at any depth),
\* valuesEqual(x, y) is true, also when sort keys of distinct elements
\* coincide.
C1_OrderInsensitive ==
  (op = "valuesEqual" /\ args[2] \in Perms(args[1])) => retBool

\* C2: normalising a normalised value changes nothing: the same elements in
\* the same order, the same keys in the same order.
C2_Idempotent ==
  op = "normalizeValue" => normalizeValue(retVal) = retVal

C2_Witness ==
  /\ op = "normalizeValue"
  /\ IsArray(args[1])
  /\ retVal # args[1]
  /\ \E n \in 1..Len(retVal.kids) :
       /\ IsArray(retVal.kids[n])
       /\ \E i, j \in 1..Len(retVal.kids[n].kids) :
            /\ i # j
            /\ sortKey(retVal.kids[n].kids[i]) = sortKey(retVal.kids[n].kids[j])
            /\ retVal.kids[n].kids[i] # retVal.kids[n].kids[j]

\* C3: compareSubset(x, x) is true for every value x.
C3_Reflexive ==
  (op = "compareSubset" /\ args[1] = args[2]) => retBool

C3_Witness ==
  /\ op = "compareSubset"
  /\ args[1] = args[2]
  /\ IsObject(args[1])
  /\ \E i \in 1..Len(args[1].kids) :
       /\ IsArray(args[1].kids[i])
       /\ normalizeValue(args[1].kids[i]) # args[1].kids[i]
  /\ retBool

\* C4: if compareSubset(a, b) is true and b is a non-array object, it stays
\* true when b gains keys that a does not mention, at the top level or in
\* nested objects that a reaches through object keys.
C4_Monotone ==
  (op = "compareSubset" /\ retBool /\ IsObject(args[2]))
    => \A b1 \in Extensions(args[1], args[2]) : compareSubset(args[1], b1)

C4_Witness ==
  /\ op = "compareSubset"
  /\ retBool
  /\ IsObject(args[1])
  /\ IsObject(args[2])
  /\ \E i \in 1..Len(args[1].keys) :
       /\ IsObject(args[1].kids[i])
       /\ args[1].kids[i].keys # <<>>
       /\ Extend(args[1].kids[i], Get(args[2], args[1].keys[i])) # {}

----------------------------------------------------------------------------
(* Claims about the patch applier *)

IdOf(v) == Get(v, "id")

\* The overlay has an entry for the task's id.
HasEntry(task, overlay) ==
  /\ IsObject(Get(overlay, "tasks"))
  /\ HasKey(Get(overlay, "tasks"), IdOf(task).s)

\* The overlay without the entries whose id no task of the list has.
OnlyEntriesOf(tasks, overlay) ==
  LET entries == Get(overlay, "tasks")
      keep == SelectSeq([i \in 1..Len(entries.keys) |-> i],
                LAMBDA i : \E j \in 1..Len(tasks.kids) :
                             IdOf(tasks.kids[j]).s = entries.keys[i])
  IN  IF ~IsObject(entries) THEN overlay
      ELSE Set(overlay, "tasks",
               Obj([i \in 1..Len(keep) |-> entries.keys[keep[i]]],
                   [i \in 1..Len(keep) |-> entries.kids[keep[i]]]))

\* C6: without an entry for task.id the task is returned unchanged, and the
\* entries whose id no input task has do not change the batch's output.
C6_ApplyNoOp ==
  /\ (op = "applyTaskOverlay" /\ ~HasEntry(args[1], args[2])) => retVal = args[1]
  /\ op = "applyOverlayToTasks"
       => retVal = applyOverlayToTasks(args[1], OnlyEntriesOf(args[1], args[2]))

C6_Witness ==
  /\ op = "applyTaskOverlay"
  /\ ~HasEntry(args[1], args[2])
  /\ IsObject(Get(args[2], "tasks"))
  /\ Get(args[2], "tasks").keys # <<>>
  /\ retVal = args[1]

\* The patch of the task has disabled === true.
IsDisabled(task, overlay) ==
  StrictEquals(Get(TaskOverrideOf(task, overlay), "disabled"), Bool("true"))

RECURSIVE IsSubsequence(_, _)
IsSubsequence(a, b) ==
  IF a = <<>> THEN TRUE
  ELSE IF b = <<>> THEN FALSE
  ELSE IF Head(a) = Head(b) THEN IsSubsequence(Tail(a), Tail(b))
  ELSE IsSubsequence(a, Tail(b))

Ids(list) == [i \in 1..Len(list) |-> IdOf(list[i])]

Survivors(tasks, overlay) ==
  SelectSeq(tasks.kids, LAMBDA t : ~IsDisabled(t, overlay))

\* The batch returns the applyTaskOverlay results of the tasks that are not
\* disabled, in the input's order.
BatchIsMapOfSurvivors ==
  LET kept == Survivors(args[1], args[2])
  IN  /\ Len(retVal.kids) = Len(kept)
      /\ Len(retVal.kids) =
           Len(args[1].kids)
             - Cardinality({i \in 1..Len(args[1].kids) : IsDisabled(args[1].kids[i], args[2])})
      /\ \A i \in 1..Len(kept) :
           /\ retVal.kids[i] # Null
           /\ retVal.kids[i] = applyTaskOverlay(kept[i], args[2])

\* C7 as stated: the batch drops exactly the disabled tasks and keeps the
\* order, and the output's ids are a subsequence of the input's ids.
C7_Original ==
  op = "applyOverlayToTasks"
    => /\ BatchIsMapOfSurvivors
       /\ IsSubsequence(Ids(retVal.kids), Ids(args[1].kids))

\* C7, amended: the batch drops exactly the disabled tasks and keeps the
\* order; an output task has the id of the input task it comes from unless
\* its patch carries an `id` key, so the output's ids are a subsequence of the
\* input's when no applied patch carries one.
C7_BatchApply ==
  op = "applyOverlayToTasks"
    => LET kept == Survivors(args[1], args[2])
       IN  /\ BatchIsMapOfSurvivors
           /\ \A i \in 1..Len(kept) :
                ~HasKey(TaskOverrideOf(kept[i], args[2]), "id")
                  => IdOf(retVal.kids[i]) = IdOf(kept[i])
           /\ (\A i \in 1..Len(kept) : ~HasKey(TaskOverrideOf(kept[i], args[2]), "id"))
                => IsSubsequence(Ids(retVal.kids), Ids(args[1].kids))

C7_Witness ==
  /\ op = "applyOverlayToTasks"
  /\ Len(args[1].kids) = 2
  /\ IsDisabled(args[1].kids[1], args[2])
  /\ ~IsDisabled(args[1].kids[2], args[2])
  /\ HasEntry(args[1].kids[2], args[2])
  /\ ~HasKey(TaskOverrideOf(args[1].kids[2], args[2]), "id")
  /\ Len(retVal.kids) = 1
  /\ retVal.kids[1] # args[1].kids[2]

\* The call applied a patch that is not disabled.
Patched ==
  /\ op = "applyTaskOverlay"
  /\ Truthy(TaskOverrideOf(args[1], args[2]))
  /\ ~IsDisabled(args[1], args[2])

ThePatch == TaskOverrideOf(args[1], args[2])

\* Result objective r is the objective o with the fields of patch p
\* overwritten, and nothing else changed.
IsOverwritten(r, o, p) ==
  /\ KeysOf(r) = KeysOf(o) \cup KeysOf(p)
  /\ \A k \in KeysOf(p) : Get(r, k) = Get(p, k)
  /\ \A k \in KeysOf(o) \ KeysOf(p) : Get(r, k) = Get(o, k)

\* The objectives of the result up to the entity's number of objectives are
\* the entity's, each merged with the patch of its id if there is one.
ObjectivesMerged ==
  LET before == Get(args[1], "objectives").kids
      after == Get(retVal, "objectives").kids
      map == Get(ThePatch, "objectives")
  IN  /\ Len(after) >= Len(before)
      /\ ~Truthy(Get(ThePatch, "objectivesAdd")) => Len(after) = Len(before)
      /\ \A i \in 1..Len(before) :
           IF HasKey(map, IdOf(before[i]).s)
             THEN IsOverwritten(after[i], before[i], Get(map, IdOf(before[i]).s))
             ELSE after[i] = before[i]

\* C8 as stated: the merged list also has the entity's id order.
C8_Original ==
  (Patched /\ Truthy(Get(ThePatch, "objectives")))
    => /\ ObjectivesMerged
       /\ \A i \in 1..Len(Get(args[1], "objectives").kids) :
            IdOf(Get(retVal, "objectives").kids[i])
              = IdOf(Get(args[1], "objectives").kids[i])

\* C8, amended: with an `objectives` map the result's objectives (before any
\* objectivesAdd) are the entity's, in the same number and order, each with
\* the fields of the patch of its id overwritten and the others unchanged;
\* patch keys naming no objective add nothing; the ids are the entity's
\* except where an objective's patch itself carries an `id` field.
C8_ObjectiveMerge ==
  (Patched /\ Truthy(Get(ThePatch, "objectives")))
    => /\ ObjectivesMerged
       /\ \A i \in 1..Len(Get(args[1], "objectives").kids) :
            LET o == Get(args[1], "objectives").kids[i]
            IN  ~HasKey(Get(Get(ThePatch, "objectives"), IdOf(o).s), "id")
                  => IdOf(Get(retVal, "objectives").kids[i]) = IdOf(o)

C8_Witness ==
  /\ Patched
  /\ Get(args[1], "objectives") = Arr(<<O1, O2>>)
  /\ Get(ThePatch, "objectives")
       = Obj(<<"o2">>, <<Obj(<<"count">>, <<Num("5")>>)>>)
  /\ Get(retVal, "objectives")
       = Arr(<<O1, Obj(<<"id", "description", "count">>,
                       <<Str("o2"), Str("d2"), Num("5")>>)>>)

\* C9: with objectivesAdd the result's objectives are the (possibly patched)
\* existing ones followed by the added records, unchanged and in their
\* order, also when an added record has the id of an existing objective.
C9_ObjectivesAddAppends ==
  (Patched /\ Truthy(Get(ThePatch, "objectivesAdd")))
    => LET before == Get(args[1], "objectives").kids
           after == Get(retVal, "objectives").kids
           added == Get(ThePatch, "objectivesAdd").kids
       IN  /\ Len(after) = Len(before) + Len(added)
           /\ \A j \in 1..Len(added) : after[Len(before) + j] = added[j]
           /\ ObjectivesMerged
           /\ ~Truthy(Get(ThePatch, "objectives"))
                => SubSeq(after, 1, Len(before)) = before

C9_Witness ==
  /\ Patched
  /\ Get(ThePatch, "objectivesAdd") = Arr(<<O1Again, Z>>)
  /\ Truthy(Get(ThePatch, "objectives"))
  /\ \E i \in 1..Len(Get(args[1], "objectives").kids) :
       IdOf(Get(args[1], "objectives").kids[i]) = Str("o1")
  /\ Len(Get(retVal, "objectives").kids) = Len(Get(args[1], "objectives").kids) + 2

----------------------------------------------------------------------------
(* Claims about the field reconciler *)

SimpleFields ==
  {"minPlayerLevel", "name", "wikiLink", "map", "experience", "finishRewards"}

\* The call validated an override against a live list.
Validated == op = "validateTaskOverride"

TheOverride == args[2]

\* The task id is in the live list.
IsLive == \E i \in 1..Len(args[3].kids) : IdOf(args[3].kids[i]) = args[1]

\* The live task of the id: the first one in the list.
TheLiveTask ==
  args[3].kids[CHOOSE i \in 1..Len(args[3].kids) :
                 /\ IdOf(args[3].kids[i]) = args[1]
                 /\ \A j \in 1..(i - 1) : IdOf(args[3].kids[j]) # args[1]]

DeclaredDisabled == Get(TheOverride, "disabled") = Bool("true")

\* The details of the result that name the field.
DetailsOf(field) ==
  SelectSeq(retResult.details, LAMBDA d : d.field = <<field>>)

\* C5: compareSubset(undefined, v) is true for every v and
\* compareSubset(null, v) is true only for v = null; an absent top-level
\* field gives no detail and a field set to null gives one detail, which is
\* 'fixed' only when the live field is null.
C5_UndefinedNullAsymmetry ==
  /\ (op = "compareSubset" /\ args[1] = Undef) => retBool
  /\ (op = "compareSubset" /\ args[1] = Null) => (retBool <=> args[2] = Null)
  /\ (Validated /\ IsLive /\ ~DeclaredDisabled)
       => \A f \in SimpleFields :
            /\ ~HasKey(TheOverride, f) => DetailsOf(f) = <<>>
            /\ Get(TheOverride, f) = Null
                 => /\ Len(DetailsOf(f)) = 1
                    /\ DetailsOf(f)[1].status =
                         IF Get(TheLiveTask, f) = Null THEN "fixed" ELSE "needed"

C5_Witness ==
  /\ Validated /\ IsLive /\ ~DeclaredDisabled
  /\ Get(TheOverride, "map") = Null
  /\ Get(TheLiveTask, "map") = Null
  /\ ~HasKey(TheOverride, "minPlayerLevel")
  /\ Len(DetailsOf("map")) = 1
  /\ DetailsOf("map")[1].status = "fixed"

\* C10: the status is REMOVED_FROM_API exactly when the task id is absent
\* from the live list or the override has disabled === true; otherwise it is
\* NEEDED exactly when a detail is 'needed' or 'check', and FIXED if not; and
\* stillNeeded is true exactly when the status is NEEDED.
C10_StatusDerivation ==
  Validated
    => /\ retResult.status = "REMOVED_FROM_API" <=> (~IsLive \/ DeclaredDisabled)
       /\ retResult.status # "REMOVED_FROM_API"
            => /\ retResult.status = "NEEDED"
                    <=> \E i \in 1..Len(retResult.details) :
                          retResult.details[i].status \in {"needed", "check"}
               /\ retResult.status \in {"NEEDED", "FIXED"}
       /\ retResult.stillNeeded <=> retResult.status = "NEEDED"

C10_Witness ==
  /\ Validated /\ IsLive
  /\ Get(TheOverride, "disabled") = Bool("false")
  /\ retResult.status = "NEEDED"
  /\ retResult.stillNeeded
  /\ \A i \in 1..Len(retResult.details) : retResult.details[i].status # "needed"
  /\ \E i \in 1..Len(retResult.details) : retResult.details[i].status = "check"

\* C11: a result with status REMOVED_FROM_API has stillNeeded false and
\* exactly one detail, of status 'info', whatever the override declares; for
\* an id absent from the live list the detail's field is 'task' and the name
\* 'Unknown', also when the override is disabled; for a live id with
\* disabled === true the field is 'disabled' and the name the live one.
C11_RemovedSingleInfo ==
  (Validated /\ retResult.status = "REMOVED_FROM_API")
    => /\ ~retResult.stillNeeded
       /\ Len(retResult.details) = 1
       /\ retResult.details[1].status = "info"
       /\ ~IsLive => /\ retResult.details[1].field = <<"task">>
                     /\ retResult.name = Str("Unknown")
       /\ IsLive => /\ retResult.details[1].field = <<"disabled">>
                    /\ retResult.name = Get(TheLiveTask, "name")

C11_Witness ==
  /\ Validated /\ ~IsLive /\ DeclaredDisabled
  /\ Len(args[3].kids) > 0
  /\ HasKey(TheOverride, "taskRequirements")
  /\ HasKey(TheOverride, "objectives")
  /\ HasKey(TheOverride, "objectivesAdd")
  /\ retResult.status = "REMOVED_FROM_API"
  /\ retResult.details[1].field = <<"task">>

\* The keys of the override.
Declared == {TheOverride.keys[i] : i \in 1..Len(TheOverride.keys)}

\* C12: for a live task and an override that is not disabled, each simple
\* field the override does not declare has no detail and each one it
\* declares has exactly one, 'fixed' if compareSubset(override[f], live[f])
\* and 'needed' if not. The override {minPlayerLevel: 10} gives one 'fixed'
\* detail and FIXED against a live level of 10, and one 'needed' detail,
\* NEEDED and stillNeeded against 20.
C12_SimpleFieldValidators ==
  (Validated /\ IsLive /\ ~DeclaredDisabled)
    => /\ \A f \in SimpleFields :
            IF HasKey(TheOverride, f)
              THEN /\ Len(DetailsOf(f)) = 1
                   /\ DetailsOf(f)[1].status =
                        IF compareSubset(Get(TheOverride, f), Get(TheLiveTask, f))
                          THEN "fixed" ELSE "needed"
              ELSE DetailsOf(f) = <<>>
       /\ TheOverride = Obj(<<"minPlayerLevel">>, <<Num("10")>>)
            => /\ Len(retResult.details) = 1
               /\ Get(TheLiveTask, "minPlayerLevel") = Num("10")
                    => /\ retResult.details[1].status = "fixed"
                       /\ retResult.status = "FIXED"
                       /\ ~retResult.stillNeeded
               /\ Get(TheLiveTask, "minPlayerLevel") = Num("20")
                    => /\ retResult.details[1].status = "needed"
                       /\ retResult.status = "NEEDED"
                       /\ retResult.stillNeeded

C12_Witness ==
  /\ Validated /\ IsLive /\ ~DeclaredDisabled
  /\ Declared = {"minPlayerLevel", "finishRewards"}
  /\ Get(TheLiveTask, "minPlayerLevel") = Num("20")
  /\ Get(TheOverride, "finishRewards") # Get(TheLiveTask, "finishRewards")
  /\ Len(retResult.details) = 2
  /\ retResult.details[1].status = "needed"
  /\ retResult.details[2].status = "fixed"
  /\ retResult.status = "NEEDED"

\* The live requirement is marked active.
IsActive(r) ==
  /\ HasKey(r, "status")
  /\ \E i \in 1..Len(Get(r, "status").kids) : Get(r, "status").kids[i] = Str("active")

\* The live requirements of the task, all of them.
LiveReqs == Get(TheLiveTask, "taskRequirements").kids

\* The requirements the override lists.
OverrideReqs == Get(TheOverride, "taskRequirements").kids

\* C13: for a live task and an override that is not disabled, when every live
\* requirement is marked active (or there is none) and the override lists at
\* least one requirement, there is exactly one detail with field
\* 'taskRequirements', it is 'needed', and the result is NEEDED.
C13_NothingLeftToCompare ==
  (/\ Validated /\ IsLive /\ ~DeclaredDisabled
   /\ HasKey(TheOverride, "taskRequirements")
   /\ Len(OverrideReqs) > 0
   /\ \A i \in 1..Len(LiveReqs) : IsActive(LiveReqs[i]))
    => /\ Len(DetailsOf("taskRequirements")) = 1
       /\ DetailsOf("taskRequirements")[1].status = "needed"
       /\ retResult.status = "NEEDED"
       /\ retResult.stillNeeded

C13_Witness ==
  /\ Validated /\ IsLive /\ ~DeclaredDisabled
  /\ Declared = {"taskRequirements"}
  /\ Len(OverrideReqs) = 1
  /\ Len(LiveReqs) = 1
  /\ IsActive(LiveReqs[1])
  /\ Get(OverrideReqs[1], "task") = Get(LiveReqs[1], "task")
  /\ retResult.status = "NEEDED"

\* The predecessor task id of each requirement of the list, undefined for a
\* requirement without a task.
PredecessorIds(reqs) ==
  [i \in 1..Len(reqs) |->
     IF HasKey(reqs[i], "task") THEN Get(Get(reqs[i], "task"), "id") ELSE Undef]

\* The live requirements that are not marked active.
FilteredLiveReqs == SelectSeq(LiveReqs, LAMBDA r : ~IsActive(r))

IdSet(ids) == {ids[i] : i \in 1..Len(ids)}

\* The number of times the id occurs in the list.
Occurrences(ids, x) == Cardinality({i \in 1..Len(ids) : ids[i] = x})

SameIdBag(a, b) ==
  \A x \in IdSet(a) \cup IdSet(b) : Occurrences(a, x) = Occurrences(b, x)

\* The override declares taskRequirements and some live requirement is not
\* marked active.
ComparesRequirements ==
  /\ Validated /\ IsLive /\ ~DeclaredDisabled
  /\ HasKey(TheOverride, "taskRequirements")
  /\ Len(FilteredLiveReqs) > 0

\* C18 as stated: the one detail is 'fixed' exactly when the two sets of
\* predecessor ids are equal.
C18_Original ==
  ComparesRequirements
    => /\ Len(DetailsOf("taskRequirements")) = 1
       /\ DetailsOf("taskRequirements")[1].status = "fixed"
            <=> IdSet(PredecessorIds(OverrideReqs))
                  = IdSet(PredecessorIds(FilteredLiveReqs))

\* C18: when the filtered live requirement list is not empty, the validator
\* emits exactly one detail; it is 'fixed' exactly when the override's
\* predecessor ids and the filtered live list's are the same ids with the
\* same number of occurrences each, in whatever order, and 'needed' if not.
C18_RequirementIdsMatch ==
  ComparesRequirements
    => /\ Len(DetailsOf("taskRequirements")) = 1
       /\ DetailsOf("taskRequirements")[1].status \in {"fixed", "needed"}
       /\ DetailsOf("taskRequirements")[1].status = "fixed"
            <=> SameIdBag(PredecessorIds(OverrideReqs),
                          PredecessorIds(FilteredLiveReqs))

C18_Witness ==
  /\ ComparesRequirements
  /\ Len(OverrideReqs) = 2
  /\ PredecessorIds(OverrideReqs) # PredecessorIds(FilteredLiveReqs)
  /\ SameIdBag(PredecessorIds(OverrideReqs), PredecessorIds(FilteredLiveReqs))
  /\ DetailsOf("taskRequirements")[1].status = "fixed"

\* The details of the result with exactly this field.
DetailsAt(field) == SelectSeq(retResult.details, LAMBDA d : d.field = field)

\* The objective patches of the override: ids and field patches.
PatchedObjectives == Get(TheOverride, "objectives")

LiveObjectiveList == Get(TheLiveTask, "objectives").kids

HasLiveObjective(objId) ==
  \E k \in 1..Len(LiveObjectiveList) : IdOf(LiveObjectiveList[k]) = Str(objId)

\* The live objective of the id: the first one in the list.
LiveObjective(objId) ==
  LiveObjectiveList[CHOOSE k \in 1..Len(LiveObjectiveList) :
                      /\ IdOf(LiveObjectiveList[k]) = Str(objId)
                      /\ \A j \in 1..(k - 1) : IdOf(LiveObjectiveList[j]) # Str(objId)]

\* The details of the result about objectives (not about added ones).
ObjectiveDetailCount ==
  Len(SelectSeq(retResult.details, LAMBDA d : d.field[1] = "objective"))

\* The number of details the objective patch i must give.
RECURSIVE ExpectedObjectiveDetails(_)
ExpectedObjectiveDetails(i) ==
  IF i = 0 THEN 0
  ELSE ExpectedObjectiveDetails(i - 1)
       + (IF HasLiveObjective(PatchedObjectives.keys[i])
            THEN Cardinality({j \in 1..Len(PatchedObjectives.kids[i].keys) :
                                PatchedObjectives.kids[i].kids[j] # Undef})
            ELSE 1)

\* C20: for a live task and an override that is not disabled, each entry
\* (id, patch) of override.objectives whose id no live objective has gives
\* exactly one detail, 'check', with field objective:<id>, and the result is
\* NEEDED; each other entry gives exactly one detail per field of the patch
\* whose value is not undefined, with field objective:<id>:<field>, 'fixed'
\* if compareSubset(patch value, live objective's field) and 'needed' if
\* not; and there is no other objective detail.
C20_NestedObjectiveChecks ==
  (Validated /\ IsLive /\ ~DeclaredDisabled /\ HasKey(TheOverride, "objectives"))
    => /\ \A i \in 1..Len(PatchedObjectives.keys) :
            LET objId == PatchedObjectives.keys[i]
                patch == PatchedObjectives.kids[i]
            IN  IF ~HasLiveObjective(objId)
                  THEN /\ Len(DetailsAt(<<"objective", objId>>)) = 1
                       /\ DetailsAt(<<"objective", objId>>)[1].status = "check"
                       /\ retResult.status = "NEEDED"
                       /\ \A j \in 1..Len(patch.keys) :
                            DetailsAt(<<"objective", objId, patch.keys[j]>>) = <<>>
                  ELSE /\ DetailsAt(<<"objective", objId>>) = <<>>
                       /\ \A j \in 1..Len(patch.keys) :
                            LET at == DetailsAt(<<"objective", objId, patch.keys[j]>>)
                            IN  IF patch.kids[j] = Undef THEN at = <<>>
                                ELSE /\ Len(at) = 1
                                     /\ at[1].status =
                                          IF compareSubset(patch.kids[j],
                                               Get(LiveObjective(objId), patch.keys[j]))
                                            THEN "fixed" ELSE "needed"
       /\ ObjectiveDetailCount = ExpectedObjectiveDetails(Len(PatchedObjectives.keys))

\* A patch of two fields for an objective that is not live, one 'check'.
C20_Witness ==
  /\ Validated /\ IsLive /\ ~DeclaredDisabled
  /\ Declared = {"objectives"}
  /\ \E i \in 1..Len(PatchedObjectives.keys) :
       /\ ~HasLiveObjective(PatchedObjectives.keys[i])
       /\ Len(PatchedObjectives.kids[i].keys) = 2
  /\ Len(LiveObjectiveList) > 0
  /\ Len(retResult.details) = 1
  /\ retResult.details[1].status = "check"

\* C19: when the override value is a scalar, null or an array,
\* compareSubset(override, live) is valuesEqual(override, live). An override
\* array is satisfied only by a live array of the same length whose elements
\* are, in some order, valuesEqual to the override's: a live array with one
\* more element, or with one more key in an element that is an object, does
\* not satisfy it.
C19_ExactForScalarsAndArrays ==
  (op = "compareSubset" /\ args[1].t \notin {"undefined", "object"})
    => /\ retBool <=> valuesEqual(args[1], args[2])
       /\ (IsArray(args[1]) /\ retBool)
            => /\ IsArray(args[2])
               /\ Len(args[2].kids) = Len(args[1].kids)
               /\ \E p \in Permutations(1..Len(args[1].kids)) :
                    \A i \in 1..Len(args[1].kids) :
                      valuesEqual(args[1].kids[i], args[2].kids[p[i]])
       /\ (IsArray(args[1]) /\ args[2] \in Grown(args[1])) => ~retBool

C19_Witness ==
  /\ op = "compareSubset"
  /\ IsArray(args[1])
  /\ args[2] \in Grown(args[1])
  /\ Len(args[2].kids) = Len(args[1].kids)
  /\ \A i \in 1..Len(args[1].kids) : compareSubset(args[1].kids[i], args[2].kids[i])
  /\ ~retBool

----------------------------------------------------------------------------
(* Claims about the report *)

Buckets == <<retBuckets.stillNeeded, retBuckets.fixed, retBuckets.removedFromApi>>

\* The number of buckets the result is in.
BucketsHolding(r) ==
  Cardinality({b \in 1..3 : \E i \in 1..Len(Buckets[b]) : Buckets[b][i] = r})

\* C14: for the results of validateAllOverrides, every result is in exactly
\* one of the buckets stillNeeded, fixed and removedFromApi, the sizes of the
\* buckets sum to the number of overrides, stillNeeded holds exactly the
\* results with status NEEDED, and each bucket holds its results in the
\* order of the input.
C14_Buckets ==
  op = "categorizeResults"
    => /\ Len(retResults) = Len(args[1].keys)
       /\ \A i \in 1..Len(retResults) : BucketsHolding(retResults[i]) = 1
       /\ Len(retBuckets.stillNeeded) + Len(retBuckets.fixed)
            + Len(retBuckets.removedFromApi) = Len(args[1].keys)
       /\ retBuckets.stillNeeded
            = SelectSeq(retResults, LAMBDA r : r.status = "NEEDED")
       /\ \A b \in 1..3 : IsSubsequence(Buckets[b], retResults)

\* Two results of one bucket and one of another.
C14_Witness ==
  /\ op = "categorizeResults"
  /\ Len(retResults) = 3
  /\ \E b \in 1..3 : Len(Buckets[b]) = 2
  /\ Len(retBuckets.removedFromApi) = 1
  /\ retResults[2].status = "REMOVED_FROM_API"

----------------------------------------------------------------------------
(* Claims about the commands *)

\* The files whose line has been printed, in the order of the lines.
FilesReported ==
  LET lines == SelectSeq(printed, LAMBDA l : l.text \in {"[ok]", "[failed]"})
  IN  [k \in 1..Len(lines) |-> lines[k].file]

SomeFileInvalid == \E n \in 1..Len(fileResults) : ~fileResults[n].valid

\* C16: printResults returns true exactly when some file's result has valid
\* false; main calls exit(1) exactly in that case and completes without it
\* when every file is valid or there is none; and when main decides, the
\* line of every file has been printed, in order, those after an invalid
\* file included.
C16_ValidateExitStatus ==
  (op = "validate" /\ pc \in {"decide", "exited", "done"})
    => /\ retBool <=> SomeFileInvalid
       /\ FilesReported = [n \in 1..Len(args) |-> n]
       /\ pc = "exited" => (SomeFileInvalid /\ exitCode = "1")
       /\ pc = "done" => (~SomeFileInvalid /\ exitCode = "none")

\* An invalid file followed by a valid one, and exit(1).
C16_Witness ==
  /\ op = "validate" /\ pc = "exited"
  /\ exitCode = "1"
  /\ Len(fileResults) = 3
  /\ ~fileResults[1].valid
  /\ fileResults[2].valid
  /\ FilesReported = <<1, 2, 3>>

\* The headers of the three reconciliation reports.
ReportHeaders ==
  {"OVERLAY VALIDATION REPORT", "ADDITIONS CHECK", "EDITION EXCLUSIONS CHECK"}

HeadersPrinted == {printed[k].text : k \in 1..Len(printed)} \cap ReportHeaders

\* Nothing of a reconciliation has been computed or printed.
NoReconciliation ==
  /\ HeadersPrinted = {}
  /\ retResults = <<>> /\ additionResults = <<>> /\ missingRefs = <<>>

\* C17: check-overrides loads the overrides, then the additions and
\* editions, then fetches the live tasks, and computes and prints the three
\* reconciliations only after the fetch; when loading or fetching fails no
\* reconciliation is computed or printed and the exit code is 1; when every
\* step completes the exit code is 0 whatever the outcomes.
C17_CheckOverridesExit ==
  op = "check"
    => /\ ~NoReconciliation
            => (Len(args) = 4 /\ pc \notin {"loadTaskOverrides", "loadAdditions",
                                            "fetchTasks", "catch"})
       /\ pc = "catch" => NoReconciliation
       /\ exitCode = "1" => (pc = "exited" /\ NoReconciliation)
       /\ (pc = "exited" /\ HeadersPrinted = ReportHeaders) => exitCode = "0"
       /\ pc = "exited" => exitCode \in {"0", "1"}
       /\ pc # "exited" => exitCode = "none"

\* Every step completes, with NEEDED, REMOVED_FROM_API, MISSING and CHECK
\* outcomes and a missing edition reference.
C17_Witness ==
  /\ op = "check" /\ pc = "exited"
  /\ exitCode = "0"
  /\ \E n \in 1..Len(retResults) : retResults[n].status = "NEEDED"
  /\ \E n \in 1..Len(retResults) : retResults[n].status = "REMOVED_FROM_API"
  /\ \E n \in 1..Len(additionResults) : additionResults[n].status = "MISSING"
  /\ \E n \in 1..Len(additionResults) : additionResults[n].status = "CHECK"
  /\ missingRefs # <<>>

\* The written file, parsed.
Parsed == JSONparse(written)

\* The parsed file without $meta.sha256.
Unstamped == Set(Parsed, "$meta", Delete(Get(Parsed, "$meta"), "sha256"))

\* C15: the written overlay.json has a $meta object with version, generated
\* and sha256; parsing it, deleting $meta.sha256 and serializing the rest
\* with 2-space indentation gives exactly the string that was hashed, and
\* the SHA-256 of that string is the stored $meta.sha256.
C15_HashRoundTrip ==
  (op = "build" /\ pc = "written")
    => /\ IsObject(Get(Parsed, "$meta"))
       /\ Get(Parsed, "$meta").keys = <<"version", "generated", "sha256">>
       /\ Get(Get(Parsed, "$meta"), "version") = args[2]
       /\ Get(Get(Parsed, "$meta"), "generated") = args[3]
       /\ StringifyIndented(Unstamped, 0) = jsonContent
       /\ Get(Get(Parsed, "$meta"), "sha256")
            = Str(generateSha256(StringifyIndented(Unstamped, 0)))
       /\ StringifyIndented(Parsed, 0) = written

\* A source with a NaN, an escaped string, nested arrays and a $meta file of
\* its own, whose parsed form differs from the output in memory.
C15_Witness ==
  /\ op = "build" /\ pc = "written"
  /\ HasKey(args[1], "$meta")
  /\ Parsed # retVal
  /\ HasKey(args[1], "modes")
  /\ HasKey(args[1], "editions")
  /\ Len(written) > 100

\* The entries of override.objectivesAdd.
AddedEntries == Get(TheOverride, "objectivesAdd").kids

\* The details of the result about added objectives.
AddedDetailList ==
  SelectSeq(retResult.details, LAMBDA d : d.field[1] = "objectivesAdd")

\* Both have a description and the texts are the same.
SameDescriptionText(o, added) ==
  /\ Get(o, "description").t = "string"
  /\ Get(o, "description") = Get(added, "description")

\* C21: for a live task and an override that is not disabled, each entry of
\* override.objectivesAdd gives exactly one detail, in list order; it is
\* 'fixed' if and only if some live objective has the entry's id or the
\* entry's description text, and 'needed' otherwise; an entry and a live
\* objective that both lack a description are not matched by description.
C21_AddedObjectiveChecks ==
  (Validated /\ IsLive /\ ~DeclaredDisabled /\ Truthy(Get(TheOverride, "objectivesAdd")))
    => /\ Len(AddedDetailList) = Len(AddedEntries)
       /\ \A i \in 1..Len(AddedEntries) :
            AddedDetailList[i].status =
              IF \E k \in 1..Len(LiveObjectiveList) :
                   \/ StrictEquals(IdOf(LiveObjectiveList[k]), IdOf(AddedEntries[i]))
                   \/ SameDescriptionText(LiveObjectiveList[k], AddedEntries[i])
                THEN "fixed" ELSE "needed"

\* The patch keys the top-level loop handles.
TopLevelPatchKeys == KeysOf(ThePatch) \ {"objectives", "objectivesAdd"}

\* C22: for a patch that is not disabled, every patch key other than
\* objectives and objectivesAdd is in the result with exactly the patch's
\* value, whatever its type; every entity field the patch does not name
\* (other than the objectives list, which the objective patches and
\* additions rewrite) keeps the entity's value; and the patch's objectives
\* and objectivesAdd are never copied onto the result as top-level fields.
C22_TopLevelShallowMerge ==
  Patched
    => /\ \A k \in TopLevelPatchKeys :
            HasKey(retVal, k) /\ Get(retVal, k) = Get(ThePatch, k)
       /\ \A k \in KeysOf(args[1]) \ (TopLevelPatchKeys \cup {"objectives"}) :
            HasKey(retVal, k) /\ Get(retVal, k) = Get(args[1], k)
       /\ KeysOf(retVal) \ {"objectives"}
            = (KeysOf(args[1]) \cup TopLevelPatchKeys) \ {"objectives"}
       /\ ~HasKey(retVal, "objectivesAdd")
       /\ HasKey(retVal, "objectives") => IsArray(Get(retVal, "objectives"))
       /\ HasKey(ThePatch, "objectives")
            => Get(retVal, "objectives") # Get(ThePatch, "objectives")

\* A patch with a minPlayerLevel that is a string, a null map and objective
\* patches, applied to a task that has a map.
C22_Witness ==
  /\ Patched
  /\ Get(ThePatch, "minPlayerLevel").t = "string"
  /\ Get(ThePatch, "map") = Null
  /\ Truthy(Get(args[1], "map"))
  /\ HasKey(ThePatch, "objectives")
  /\ HasKey(ThePatch, "objectivesAdd")
  /\ Get(retVal, "map") = Null

----------------------------------------------------------------------------
(* Claims about the order of the details *)

\* The order of the top-level fields.
FieldOrder ==
  <<"minPlayerLevel", "name", "wikiLink", "map", "experience", "finishRewards",
    "taskRequirements">>

IndexIn(list, x) == CHOOSE i \in 1..Len(list) : list[i] = x

\* Where the detail belongs: the section (top-level field, objective patch,
\* added objective), then the place of the field or objective id in its
\* order, then the place of the objective's field in the patch.
Position(d, override) ==
  IF d.field[1] = "objective"
    THEN <<2, IndexIn(Get(override, "objectives").keys, d.field[2]),
           IF Len(d.field) = 3
             THEN IndexIn(Get(Get(override, "objectives"), d.field[2]).keys, d.field[3])
             ELSE 0>>
  ELSE IF d.field[1] = "objectivesAdd" THEN <<3, 0, 0>>
  ELSE <<1, IndexIn(FieldOrder, d.field[1]), 0>>

Before(p, q) ==
  \/ p[1] < q[1]
  \/ p[1] = q[1] /\ p[2] < q[2]
  \/ p[1] = q[1] /\ p[2] = q[2] /\ p[3] < q[3]

\* added.id || added.description
LabelOf(added) ==
  IF Truthy(IdOf(added)) THEN IdOf(added).s ELSE Get(added, "description").s

\* The details are in the order of the sections, fields and entries.
InOrder(details, override) ==
  /\ \A i, j \in 1..Len(details) :
       i < j => \/ Before(Position(details[i], override), Position(details[j], override))
                \/ details[i].field[1] = "objectivesAdd"
                     /\ details[j].field[1] = "objectivesAdd"
  /\ LET added == SelectSeq(details, LAMBDA d : d.field[1] = "objectivesAdd")
     IN  /\ Len(added) = Len(Get(override, "objectivesAdd").kids)
         /\ \A i \in 1..Len(added) :
              added[i].field[2] = LabelOf(Get(override, "objectivesAdd").kids[i])

\* C23: validateAllOverrides returns one result per override key, in the
\* key order of the overrides, and the details of every result of a live
\* task that is not disabled are in this order: the top-level fields in the
\* order minPlayerLevel, name, wikiLink, map, experience, finishRewards,
\* taskRequirements, then the objective details in the key order of
\* override.objectives (fields in the key order of the patch), then the
\* objectivesAdd details in list order.
C23_DetailOrder ==
  op \in {"validateAllOverrides", "categorizeResults"}
    => /\ Len(retResults) = Len(args[1].keys)
       /\ \A i \in 1..Len(retResults) :
            /\ retResults[i].id = args[1].keys[i]
            /\ retResults[i].status # "REMOVED_FROM_API"
                 => InOrder(retResults[i].details, args[1].kids[i])

\* Three overrides, the second one with details of every section: seven
\* top-level fields, a 'check' and two fields of a live objective, and two
\* added objectives.
C23_Witness ==
  /\ op = "validateAllOverrides"
  /\ Len(retResults) = 3
  /\ args[1].keys = <<"t3", "t1", "t2">>
  /\ Len(retResults[2].details) = 12
  /\ retResults[2].details[7].field = <<"taskRequirements">>
  /\ retResults[2].details[8].field = <<"objective", "o3">>
  /\ retResults[2].details[9].field = <<"objective", "o2", "description">>
  /\ retResults[2].details[12].field = <<"objectivesAdd", "z">>

----------------------------------------------------------------------------
(* Claims about the inputs of a call *)

C25_ValidateFileTotal ==
  (op = "validate" /\ pc \in {"printResults", "decide", "exited", "done"})
    => /\ Len(fileResults) = Len(args)
       /\ \A n \in 1..Len(args) :
            LET file == args[n]
                result == fileResults[n]
            IN  /\ result.file = n
                /\ result.errors # <<>> <=> ~result.valid
                /\ CASE file.content = "unreadable" ->
                          ~result.valid /\ result.errors = <<"message">>
                     [] file.content = "empty" -> result.valid
                     [] file.content # "empty" /\ file.content # "unreadable"
                          /\ file.name \notin validators -> result.valid
                     [] OTHER -> result.valid <=> file.content = "conforming"
       /\ \A name \in {"tasks.json5", "editions.json5", "unknown.json5"} :
            getValidator(name, validators) = "null" <=> name \notin validators

\* Two schemas; an empty file and a violating file of a name that has a
\* schema, and a violating file of a name that has none.
C25_Witness ==
  /\ op = "validate" /\ pc = "printResults"
  /\ validators = {"tasks.json5", "editions.json5"}
  /\ Len(args) = 3
  /\ args[1] = [name |-> "tasks.json5", content |-> "empty"]
  /\ args[2] = [name |-> "tasks.json5", content |-> "violating"]
  /\ args[3] = [name |-> "unknown.json5", content |-> "violating"]
  /\ fileResults[1].valid /\ ~fileResults[2].valid /\ fileResults[3].valid

----------------------------------------------------------------------------
(* Claims about the additions *)

\* The additions have been checked.
AdditionsChecked ==
  /\ op = "check"
  /\ pc \in {"checkEditionTaskReferences", "exit"} \/ (pc = "exited" /\ exitCode = "0")

\* Some live task has the addition's wiki link, both normalized.
HasWikiMatch(addition) ==
  /\ normalizeWikiLink(addition.wikiLink) # <<>>
  /\ \E k \in 1..Len(args[4].kids) :
       normalizeWikiLink(Pieces(Get(args[4].kids[k], "wikiLink")))
         = normalizeWikiLink(addition.wikiLink)

\* The number of live tasks that have the addition's name, both normalized.
NameMatches(addition) ==
  Cardinality({k \in 1..Len(args[4].kids) :
                 normalizeName(Pieces(Get(args[4].kids[k], "name")))
                   = normalizeName(addition.name)})

\* C26 as stated: every addition gets one status of RESOLVED, CHECK and
\* MISSING; an addition whose normalized name matches more than one live
\* task is always CHECK; RESOLVED is given only on a wikiLink match, a
\* single name-only match is CHECK and no match at all is MISSING.
C26_Original ==
  AdditionsChecked
    => /\ Len(additionResults) = Len(args[2])
       /\ \A n \in 1..Len(args[2]) :
            LET status == additionResults[n].status
            IN  /\ status \in {"RESOLVED", "CHECK", "MISSING"}
                /\ NameMatches(args[2][n]) > 1 => status = "CHECK"
                /\ status = "RESOLVED" => HasWikiMatch(args[2][n])
                /\ (~HasWikiMatch(args[2][n]) /\ NameMatches(args[2][n]) = 1)
                     => status = "CHECK"
                /\ (~HasWikiMatch(args[2][n]) /\ NameMatches(args[2][n]) = 0)
                     => status = "MISSING"

\* C26: every addition gets one status of RESOLVED, CHECK and MISSING: it is
\* RESOLVED exactly when a live task has its normalized wikiLink; without
\* such a match it is CHECK when its normalized name matches one live task
\* or more than one, and MISSING when it matches none.
C26_AmbiguousAdditions ==
  AdditionsChecked
    => /\ Len(additionResults) = Len(args[2])
       /\ \A n \in 1..Len(args[2]) :
            LET status == additionResults[n].status
            IN  /\ additionResults[n].key = args[2][n].key
                /\ status \in {"RESOLVED", "CHECK", "MISSING"}
                /\ status = "RESOLVED" <=> HasWikiMatch(args[2][n])
                /\ status = "CHECK"
                     <=> (~HasWikiMatch(args[2][n]) /\ NameMatches(args[2][n]) >= 1)
                /\ status = "MISSING"
                     <=> (~HasWikiMatch(args[2][n]) /\ NameMatches(args[2][n]) = 0)

\* Two live tasks share a name: the addition with that name and a wiki link
\* of its own is CHECK, the one with the wiki link of a live task RESOLVED.
C26_Witness ==
  /\ AdditionsChecked
  /\ Len(additionResults) = 2
  /\ NameMatches(args[2][1]) = 2 /\ HasWikiMatch(args[2][1])
  /\ additionResults[1].status = "RESOLVED"
  /\ NameMatches(args[2][2]) = 2 /\ ~HasWikiMatch(args[2][2])
  /\ additionResults[2].status = "CHECK"

----------------------------------------------------------------------------
(* Claims about the fields no validator reads *)

ValidatedFields ==
  SimpleFields \cup {"taskRequirements", "objectives", "objectivesAdd"}

\* The fields of the override that a validator reads, in the override's order.
RECURSIVE ValidatedPart(_)
ValidatedPart(override) ==
  IF \A i \in 1..Len(override.keys) : override.keys[i] \in ValidatedFields
    THEN override
    ELSE ValidatedPart(Delete(override,
           override.keys[CHOOSE i \in 1..Len(override.keys) :
                           override.keys[i] \notin ValidatedFields]))

\* C27: for a live task and an override that is not disabled, no detail
\* names a top-level field outside the nine validated ones, and the result
\* is the one of the override without those fields. An override that
\* declares none of the nine fields (the empty object included) is FIXED,
\* not stillNeeded, has no detail, and is in the 'fixed' bucket only.
C27_UnvalidatedFields ==
  (Validated /\ IsLive /\ ~DeclaredDisabled)
    => /\ \A i \in 1..Len(retResult.details) :
            retResult.details[i].field[1] \in ValidatedFields \cup {"objective"}
       /\ retResult.details
            = validateTaskOverride(args[1].s, ValidatedPart(TheOverride), args[3]).details
       /\ retResult.status
            = validateTaskOverride(args[1].s, ValidatedPart(TheOverride), args[3]).status
       /\ Declared \cap ValidatedFields = {}
            => /\ retResult.status = "FIXED"
               /\ ~retResult.stillNeeded
               /\ retResult.details = <<>>
               /\ categorizeResults(<<retResult>>)
                    = [stillNeeded |-> <<>>, fixed |-> <<retResult>>,
                       removedFromApi |-> <<>>]

C27_Witness ==
  /\ Validated /\ IsLive /\ ~DeclaredDisabled
  /\ Declared = {"kappaRequired", "disabled"}
  /\ retResult.status = "FIXED"
  /\ retResult.details = <<>>

----------------------------------------------------------------------------
(* Claims about an empty list of requirements *)

\* C29: for a live task and an override that is not disabled and declares
\* taskRequirements as the empty list: when no live requirement is left
\* after the active ones are dropped, no detail names taskRequirements and
\* the result is the one of the override without the field; when one is
\* left, exactly one detail names taskRequirements, it is 'needed', and the
\* result is NEEDED.
C29_EmptyRequirements ==
  (/\ Validated /\ IsLive /\ ~DeclaredDisabled
   /\ Get(TheOverride, "taskRequirements") = Arr(<<>>))
    => IF FilteredLiveReqs = <<>>
         THEN /\ DetailsOf("taskRequirements") = <<>>
              /\ retResult = validateTaskOverride(args[1].s,
                                Delete(TheOverride, "taskRequirements"), args[3])
         ELSE /\ Len(DetailsOf("taskRequirements")) = 1
              /\ DetailsOf("taskRequirements")[1].status = "needed"
              /\ retResult.status = "NEEDED"
              /\ retResult.stillNeeded

\* Every live requirement is active and the override's list is empty.
C29_Witness ==
  /\ Validated /\ IsLive /\ ~DeclaredDisabled
  /\ Declared = {"taskRequirements"}
  /\ Get(TheOverride, "taskRequirements") = Arr(<<>>)
  /\ Len(LiveReqs) = 1
  /\ FilteredLiveReqs = <<>>
  /\ retResult.status = "FIXED"
  /\ retResult.details = <<>>

----------------------------------------------------------------------------
(* Claims about applying an overlay twice *)

\* The ids of the task's objectives, in order; none when it has no list.
ObjectiveIds(task) ==
  IF Get(task, "objectives").t = "array"
    THEN [i \in 1..Len(Get(task, "objectives").kids) |->
            Get(Get(task, "objectives").kids[i], "id")]
    ELSE <<>>

\* The overlay's patch for the task, if any, is not disabled, declares no
\* objectivesAdd, and leaves the task's id and its objectives' ids as they
\* are.
Repeatable(task, overlay) ==
  LET patch == TaskOverrideOf(task, overlay)
  IN  Truthy(patch)
        => /\ ~StrictEquals(Get(patch, "disabled"), Bool("true"))
           /\ ~HasKey(patch, "objectivesAdd")
           /\ Get(applyTaskOverlay(task, overlay), "id") = Get(task, "id")
           /\ ObjectiveIds(applyTaskOverlay(task, overlay)) = ObjectiveIds(task)

\* C30: when the patch of the task is not disabled, has no objectivesAdd and
\* changes no id, applying the overlay to the result of applyTaskOverlay
\* gives that result again; and when this is so for each task of a list,
\* applying the overlay to the result of applyOverlayToTasks gives that
\* result again.
C30_ApplyIdempotent ==
  /\ (op = "applyTaskOverlay" /\ Repeatable(args[1], args[2]))
       => applyTaskOverlay(retVal, args[2]) = retVal
  /\ (/\ op = "applyOverlayToTasks"
      /\ \A i \in 1..Len(args[1].kids) : Repeatable(args[1].kids[i], args[2]))
       => applyOverlayToTasks(retVal, args[2]) = retVal

\* A patch of a level, a map and two objectives, one of them of the task.
C30_Witness ==
  /\ Patched
  /\ Repeatable(args[1], args[2])
  /\ HasKey(ThePatch, "minPlayerLevel")
  /\ HasKey(ThePatch, "map")
  /\ Len(Get(ThePatch, "objectives").keys) = 2
  /\ retVal # args[1]
  /\ Get(retVal, "objectives") # Get(args[1], "objectives")
  /\ applyTaskOverlay(retVal, args[2]) = retVal

----------------------------------------------------------------------------
(* Claims about reconciling against corrected data *)

\* The live task with the override applied to it.
TheCorrectedTask ==
  applyTaskOverlay(TheLiveTask, Obj(<<"tasks">>, <<Obj(<<args[1].s>>, <<TheOverride>>)>>))

\* The live list with the live task replaced by the corrected one.
TheCorrectedList ==
  LET n == CHOOSE i \in 1..Len(args[3].kids) :
             /\ IdOf(args[3].kids[i]) = args[1]
             /\ \A j \in 1..(i - 1) : IdOf(args[3].kids[j]) # args[1]
  IN  Arr([i \in 1..Len(args[3].kids) |->
             IF i = n THEN TheCorrectedTask ELSE args[3].kids[i]])

\* Every key of the override's `objectives` is the id of a live objective.
PatchesNameLiveObjectives ==
  \A k \in 1..Len(Get(TheOverride, "objectives").keys) :
    \E i \in 1..Len(Get(TheLiveTask, "objectives").kids) :
      Get(Get(TheLiveTask, "objectives").kids[i], "id")
        = Str(Get(TheOverride, "objectives").keys[k])

\* The result of reconciling the override against the corrected list.
Reconciled == validateTaskOverride(args[1].s, TheOverride, TheCorrectedList)

\* C28: for a live task and an override that is not disabled and patches
\* only objectives of the task, validating the override against the live
\* list with the task replaced by applyTaskOverlay's result gives FIXED,
\* not stillNeeded, and no detail that is 'needed' or 'check'.
C28_ApplyThenReconcile ==
  (Validated /\ IsLive /\ ~DeclaredDisabled /\ PatchesNameLiveObjectives)
    => /\ Reconciled.status = "FIXED"
       /\ ~Reconciled.stillNeeded
       /\ \A i \in 1..Len(Reconciled.details) :
            Reconciled.details[i].status \notin {"needed", "check"}

====
